---- MODULE Spec2Model ----
(***************************************************************************)
(* Model of the Suvidha request pipeline (suvidha.js): the fluent builder  *)
(* (body / query / params / use), the request handler returned by          *)
(* handler(), and the four lifecycle callbacks of the Handlers interface.  *)
(*                                                                         *)
(* One action models the code that runs between two suspension points      *)
(* (await) of the async request handler.  User code (validators,           *)
(* middleware, the terminal handler, the callbacks) is the environment:    *)
(* its outcome is drawn from small sets when the awaited call settles.     *)
(***************************************************************************)
EXTENDS Integers, Sequences, FiniteSets, TLC

\* ------------------------------------------------------------------ bounds
\* Maximum number of fluent declarations (body/query/params/use) on a builder.
MaxOrder == 3

\* The largest status code defaultFormatter is called with.
MaxStatus == 650

\* Longest chain of declarations in the runs checked for termination.
MaxLive == 2

\* ------------------------------------------------------------ value domains
\* type DataRef = "body" | "query" | "params"
DataRef == {"body", "query", "params"}

\* Identities of the middleware functions a caller may pass to use().
MwFns == {"f", "g"}

\* Keys of the context objects middleware return.
Keys == {"a", "b"}

\* type Context = Record<string | symbol, any>: finite maps Keys -> {1, 2}.
Context == UNION {[D -> {1, 2}] : D \in SUBSET Keys}

\* (req as CtxRequest).context = {}
EmptyCtx == [k \in {} |-> 0]

\* Partial contexts a middleware may return.
MwReturns == {EmptyCtx, [k \in {"a"} |-> 1], [k \in {"a"} |-> 2], [k \in {"b"} |-> 1]}

\* What a middleware returns in the runs that vary the request data instead.
PlainReturns == {EmptyCtx}

\* The channels a middleware may assign, and the kinds of data it may put.
Writable == {"body"}
WrittenKinds == {"good", "bad"}

\* Values the terminal handler may return.
Outputs == {"undefined", "v1", "v2"}

\* Values user code (middleware, handler, callbacks) may throw.
Thrown == {"e1", "e2"}

\* Outcomes of schemaMap[ref].parse(...): value, ZodError, any other throw.
ParseOutcomes == {"ok", "zod", "other"}

\* What a channel of the request holds, as far as a schema can tell: data the
\* schema accepts, data it rejects with a ZodError, data on which the
\* validator throws something else.
DataKinds == {"good", "bad", "odd"}

\* A channel value: who wrote it (0: the client, n: the middleware at loop
\* position n), its kind, and whether it is the output of schema.parse.
ClientValue(k) == [by |-> 0, kind |-> k, parsed |-> FALSE]
WrittenValue(n, k) == [by |-> n, kind |-> k, parsed |-> FALSE]

\* schemaMap[ref].parse(v): whether it returns or what it throws.
ParseOutcomeOf(v) ==
    CASE v.kind = "good" -> "ok"
      [] v.kind = "bad" -> "zod"
      [] OTHER -> "other"

\* The value schemaMap[ref].parse(v) returns for data it accepts (parsing the
\* output of a parse again returns it).
ParsedValue(v) == [v EXCEPT !.parsed = TRUE]

\* The ZodError raised for a channel.
ZodErrorOf(ref) == "ZodError:" \o ref

\* The Error assertZodError raises when the validator threw something else.
InternalError == "SuvidhaInternalError"

\* Identifiers of the requests in flight.
ReqIds == {"r1"}

\* Two requests on their way through one request handler at the same time.
ConcIds == {"r1", "r2"}

\* ------------------------------------------------- values at DefaultHandlers
\* What a terminal handler may return, by name.
DefOutputs ==
    {"undefined", "str", "num", "null", "obj", "fn", "sym", "big",
     "p201", "pStr", "pFull", "pNumBody", "pArrBody", "pExtra", "pStrStatus",
     "end201"}

\* What user code may throw: a plain Error, or an Http.NotFound.
DefThrown == {"e1", "end404"}

\* The structure of a returned value: its typeof, whether it is an Http.End
\* instance, and for a plain object its own keys and what body, status,
\* headers and meta hold.
Plain(t) ==
    [type |-> t, end |-> FALSE, keys |-> {}, bodyT |-> "none", statusT |-> "none",
     headersT |-> "none", metaT |-> "none", status |-> 0, body |-> "none",
     meta |-> "none", headers |-> "none"]

Obj(keys, bodyT, statusT, headersT, metaT, status, body, meta, headers) ==
    [type |-> "object", end |-> FALSE, keys |-> keys, bodyT |-> bodyT,
     statusT |-> statusT, headersT |-> headersT, metaT |-> metaT,
     status |-> status, body |-> body, meta |-> meta, headers |-> headers]

Shape(v) ==
    CASE v = "undefined"  -> Plain("undefined")
      [] v = "str"        -> Plain("string")
      [] v = "num"        -> Plain("number")
      [] v = "null"       -> Plain("object")
      [] v = "fn"         -> Plain("function")
      [] v = "sym"        -> Plain("symbol")
      [] v = "big"        -> Plain("bigint")
      [] v = "obj"        -> Obj({"id"}, "none", "none", "none", "none", 0, "none", "none", "none")
      [] v = "p201"       -> Obj({"body", "status"}, "record", "number", "none", "none",
                                 201, "{id:1}", "none", "none")
      [] v = "pStr"       -> Obj({"body", "status"}, "string", "number", "none", "none",
                                 404, "'gone'", "none", "none")
      [] v = "pFull"      -> Obj({"body", "status", "headers", "meta"}, "record", "number",
                                 "strings", "record", 500, "{id:1}", "{page:1}", "{x-a:1}")
      [] v = "pNumBody"   -> Obj({"body", "status"}, "number", "number", "none", "none",
                                 201, "5", "none", "none")
      [] v = "pArrBody"   -> Obj({"body", "status"}, "array", "number", "none", "none",
                                 201, "[1]", "none", "none")
      [] v = "pExtra"     -> Obj({"body", "status", "extra"}, "record", "number", "none", "none",
                                 201, "{id:1}", "none", "none")
      [] v = "pStrStatus" -> Obj({"body", "status"}, "record", "string", "none", "none",
                                 0, "{id:1}", "none", "none")
      [] v = "end201"     -> [Obj({"protocol"}, "record", "number", "strings", "record",
                                  201, "{id:2}", "{}", "{}") EXCEPT !.end = TRUE]
      [] v = "end404"     -> [Obj({"protocol"}, "string", "number", "strings", "record",
                                  404, "'Not Found'", "{}", "{}") EXCEPT !.end = TRUE]
      [] v = "BadRequest" -> [Obj({"protocol"}, "string", "number", "strings", "record",
                                  400, "'Data provided does not meet the required format.'",
                                  "{}", "{}") EXCEPT !.end = TRUE]
      [] v = "InternalServerError" ->
                             [Obj({"protocol"}, "string", "number", "strings", "record",
                                  500, "'Internal Server Error'", "{}", "{}") EXCEPT !.end = TRUE]
      [] OTHER            -> Plain("object")

\* isProtocol(obj): ProtocolSchema.strict().safeParse(obj).success
IsProtocol(x) ==
    /\ x.type = "object"
    /\ x.keys \subseteq {"body", "status", "headers", "meta"}
    /\ {"body", "status"} \subseteq x.keys
    /\ x.bodyT \in {"string", "record"}
    /\ x.statusT = "number"
    /\ "headers" \in x.keys => x.headersT = "strings"
    /\ "meta" \in x.keys => x.metaT = "record"

\* Variant of HttpEnd: the constructor without the ?? {} defaults.
HttpEndNoDefaults(x) == [x EXCEPT !.end = TRUE]

\* new Http.End(protocol): headers and meta default to {}.
HttpEnd(x) ==
    [x EXCEPT !.end = TRUE,
              !.headers = IF "headers" \in x.keys THEN @ ELSE "{}",
              !.meta = IF "meta" \in x.keys THEN @ ELSE "{}"]

\* mapToStatus inside defaultFormatter.
MapToStatus(statusCode) ==
    IF statusCode >= 400 /\ statusCode < 500 THEN "fail"
    ELSE IF statusCode >= 500 THEN "error"
    ELSE "success"

\* defaultFormatter(status, body, meta)
DefaultFormatter(status, body, meta) ==
    [status |-> MapToStatus(status), data |-> body, meta |-> meta]

\* --------------------------------------------------------------------- state
VARIABLES
    order,        \* Suvidha.order: the tagged references, in push order
    useHandlers,  \* Suvidha.useHandlers: the registered middleware
    decl,         \* history: the fluent calls made, in call order
    built,        \* handler() has been called and its closure registered
    closure,      \* history: which method made the closure, after how many calls
    reqs,         \* per request: the locals of the async closure and its req/res
    app           \* a call of an exported function: its arguments and its result

vars == <<order, useHandlers, decl, built, closure, reqs, app>>

\* An entry of order: a DataRef string, or a number indexing useHandlers.
RefEntry(ref) == [kind |-> "data", ref |-> ref, idx |-> 0]
UseEntry(i) == [kind |-> "use", ref |-> "none", idx |-> i]

\* The state of a request before it arrives.
\*   pc          where the async closure is suspended
\*   i           number of completed iterations of `for (const ref of this.order)`
\*   context     req.context
\*   base        the copy `...req.context` taken before useFn is called
\*   data        req.body / req.query / req.params
\*   via         which closure runs: that of handler() or that of next()
\*   headersSent res.headersSent
\*   err         the ZodError parse() holds while onSchemaErr runs
\*   result      how the promise of the closure settled
\* History of the request (written, never read by the code):
\*   calls       the lifecycle callbacks invoked, with their first argument
\*   trace       the stages started, by channel / middleware identity
\*   seen        the context each middleware was handed when called
\*   rets        the middleware that returned, with the value returned
\*   hSeen       the context the terminal handler was handed
\*   hOut        how the terminal handler settled; sent = headersSent then
\*   sentBy      whose code initiated the response; sentAt = its loop position
\*   failedAt    loop position of the validation that raised a ZodError
\*   cbThrew     the value a callback threw inside the try block
\*   catchThrew  the value a callback threw inside the catch block
\*   client      the channel values the request arrived with
\*   obs         req.body/query/params as they were when each stage started
\*   writes      the channels middleware assigned, with position and kind
\*   brokeAt     loop position of the validation that threw a non-ZodError
\*   useThrew    how a middleware threw: position, value, headersSent then
\*   nextCalls   the calls of Express's next() made by the closure
\*   mutated     some middleware wrote to the req.context it was handed
\*   atSend      req.context, the number of callbacks invoked and of stages
\*               started at the moment the response was initiated
FreshReq ==
    [pc          |-> "idle",
     i           |-> 0,
     context     |-> EmptyCtx,
     base        |-> EmptyCtx,
     data        |-> [c \in DataRef |-> ClientValue("good")],
     via         |-> "handler",
     headersSent |-> FALSE,
     err         |-> "none",
     result      |-> "pending",
     calls       |-> <<>>,
     trace       |-> <<>>,
     seen        |-> <<>>,
     rets        |-> <<>>,
     hSeen       |-> <<>>,
     hOut        |-> [kind |-> "none", val |-> "none", sent |-> FALSE],
     sentBy      |-> "none",
     sentAt      |-> 0,
     failedAt    |-> 0,
     cbThrew     |-> "none",
     catchThrew  |-> "none",
     client      |-> [c \in DataRef |-> ClientValue("good")],
     obs         |-> <<>>,
     writes      |-> {},
     brokeAt     |-> 0,
     useThrew    |-> [at |-> 0, val |-> "none", sent |-> FALSE],
     nextCalls   |-> <<>>,
     active      |-> {},
     resp        |-> <<>>,
     mutated     |-> FALSE,
     atSend      |-> [context |-> EmptyCtx, calls |-> 0, trace |-> 0]]

\* No exported function is being called.
NoApp == [fn |-> "none", done |-> TRUE]

\* The builder and the router before any fluent call.
Unused ==
    /\ order = <<>>
    /\ useHandlers = <<>>
    /\ decl = <<>>
    /\ built = FALSE
    /\ closure = [kind |-> "none", at |-> 0]
    /\ reqs = [id \in ReqIds |-> FreshReq]

\* defaultFormatter is about to be called with a status, a body and a meta.
InitFmt ==
    /\ Unused
    /\ \E s \in 0..MaxStatus, b \in {"{id:1}", "'text'"}, m \in {"{}", "{page:1}"} :
          app = [fn |-> "defaultFormatter", done |-> FALSE,
                 arg |-> [status |-> s, body |-> b, meta |-> m],
                 out |-> [status |-> "none", data |-> "none", meta |-> "none"]]

\* The orders in which .body, .query and .params can be called on a Pipe.
PipeDecls == {d \in [1..3 -> DataRef] : \A j, k \in 1..3 : d[j] = d[k] => j = k}

\* The middleware made by new Pipe(ctor?) with .body, .query and .params
\* called in some order and then .validate(local?), is about to be called with
\* a request whose channels the three schemas accept, reject with a ZodError,
\* or fail on otherwise.
InitPipe ==
    /\ Unused
    /\ \E o \in [DataRef -> ParseOutcomes], local \in BOOLEAN, ctor \in BOOLEAN,
          d \in PipeDecls :
          app = [fn |-> "Pipe.validate", done |-> FALSE,
                 arg |-> [outcome |-> o, local |-> local, ctor |-> ctor, declared |-> d],
                 out |-> [nexts |-> <<>>, cbs |-> <<>>, threw |-> "none", parsed |-> <<>>,
                          req |-> [c \in DataRef |-> "raw"]]]

Init ==
    /\ order = <<>>
    /\ useHandlers = <<>>
    /\ decl = <<>>
    /\ built = FALSE
    /\ closure = [kind |-> "none", at |-> 0]
    /\ reqs = [id \in ReqIds |-> FreshReq]
    /\ app = NoApp

\* The chains of at most MaxLive body/query/params/use calls.
LiveDecls == UNION {[1..n -> DataRef \cup MwFns] : n \in 0..MaxLive}

\* The order list a chain of fluent calls leaves: a channel's tag for
\* body/query/params, the number of use() calls made before for use().
OrderOf(d) ==
    [j \in 1..Len(d) |->
        IF d[j] \in DataRef THEN RefEntry(d[j])
        ELSE UseEntry(Cardinality({k \in 1..(j - 1) : d[k] \in MwFns}))]

\* The middleware list the same chain leaves.
UseHandlersOf(d) == SelectSeq(d, LAMBDA x : x \in MwFns)

\* Suvidha.create(h).<chain>.handler(fn), the request handler registered with
\* a router that has a request to deliver.
InitLive ==
    /\ \E d \in LiveDecls :
          /\ decl = d
          /\ order = OrderOf(d)
          /\ useHandlers = UseHandlersOf(d)
          /\ closure = [kind |-> "handler", at |-> Len(d)]
    /\ built = TRUE
    /\ reqs = [id \in ReqIds |-> FreshReq]
    /\ app = NoApp

\* Suvidha.create(h).use(f).use(g).handler(fn), the request handler registered
\* with a router that has two requests to deliver.
InitConc ==
    /\ useHandlers = <<"f", "g">>
    /\ order = <<UseEntry(0), UseEntry(1)>>
    /\ decl = useHandlers
    /\ built = TRUE
    /\ closure = [kind |-> "handler", at |-> 2]
    /\ reqs = [id \in ConcIds |-> FreshReq]
    /\ app = NoApp

\* ------------------------------------------------------------------ helpers
\* Variant of Merge: { ...p, ...c }, the spread operands swapped.
MergeFirstWins(c, p) ==
    [k \in (DOMAIN c) \cup (DOMAIN p) |-> IF k \in DOMAIN c THEN c[k] ELSE p[k]]

\* { ...c, ...p }: the keys of p overwrite, the other keys of c persist.
Merge(c, p) ==
    [k \in (DOMAIN c) \cup (DOMAIN p) |-> IF k \in DOMAIN p THEN p[k] ELSE c[k]]

\* An invocation of this.handlers.<name>(val, conn, next).
Call(r, name, val) == [r EXCEPT !.calls = Append(@, <<name, val>>)]

\* User code writes the response (res.status(..).json(..)): headersSent is set.
Send(r, sends, who) ==
    IF sends /\ ~r.headersSent
    THEN [r EXCEPT !.headersSent = TRUE, !.sentBy = who, !.sentAt = r.i + 1,
                   !.atSend = [context |-> r.context, calls |-> Len(r.calls),
                               trace |-> Len(r.trace)]]
    ELSE r

\* History: the stage about to be appended to trace has been called / the last
\* stage of trace has settled (returned, or its promise resolved or rejected).
StageStarted(r) == [r EXCEPT !.active = @ \cup {Len(r.trace) + 1}]
StageSettled(r) == [r EXCEPT !.active = @ \ {Len(r.trace)}]

\* The async closure returns normally / an exception leaves it.
Return(r) == [r EXCEPT !.pc = "done", !.result = "resolved"]
Reject(r) == [r EXCEPT !.pc = "done", !.result = "rejected"]

\* Variant of Catch: the callbacks are handed a new error made in the catch
\* block, not the value caught.
CatchWrapErr(r, e) ==
    IF r.headersSent
    THEN [Call(r, "onPostResponse", InternalError) EXCEPT !.pc = "catchPostResponse"]
    ELSE [Call(r, "onErr", InternalError) EXCEPT !.pc = "onErr"]

\* Variant of Catch: the catch block without the headersSent test.
CatchAlwaysErr(r, e) == [Call(r, "onErr", e) EXCEPT !.pc = "onErr"]

\* Variant of Catch: the headersSent test negated.
CatchInverted(r, e) ==
    IF ~r.headersSent
    THEN [Call(r, "onPostResponse", e) EXCEPT !.pc = "catchPostResponse"]
    ELSE [Call(r, "onErr", e) EXCEPT !.pc = "onErr"]

\* catch (err) { headersSent ? onPostResponse(err) : onErr(err) }
Catch(r, e) ==
    IF r.headersSent
    THEN [Call(r, "onPostResponse", e) EXCEPT !.pc = "catchPostResponse"]
    ELSE [Call(r, "onErr", e) EXCEPT !.pc = "onErr"]

\* Variant of AfterStage: the loop leaves only when the stage itself answered,
\* not on res.headersSent.
AfterStageOwnSend(r) ==
    IF r.headersSent /\ r.sentBy # "external"
    THEN Return(r) ELSE [r EXCEPT !.i = @ + 1, !.pc = "loop"]

\* Variant of AfterStage: the loop advances by two, the entry after the one
\* that just completed is passed over.
AfterStageSkip(r) ==
    IF r.headersSent THEN Return(r) ELSE [r EXCEPT !.i = @ + 2, !.pc = "loop"]

\* Variant of AfterStage: `if (res.headersSent) break`, the loop is left but
\* the closure goes on to the terminal handler.
AfterStageBreak(r) ==
    IF r.headersSent THEN [r EXCEPT !.i = Len(order), !.pc = "loop"]
    ELSE [r EXCEPT !.i = @ + 1, !.pc = "loop"]

\* Variant of AfterStage: the loop without `if (res.headersSent) return`.
AfterStageNoCheck(r) == [r EXCEPT !.i = @ + 1, !.pc = "loop"]

\* End of a loop iteration: if (res.headersSent) return; otherwise next entry.
AfterStage(r) ==
    IF r.headersSent THEN Return(r) ELSE [r EXCEPT !.i = @ + 1, !.pc = "loop"]

\* Variant of Parse: schema.parse(conn.req[ref]) is called for its check only
\* and its result is not assigned to conn.req[ref].
ParseNoAssign(r, ref, out) ==
    LET r1 == [r EXCEPT !.trace = Append(@, ref), !.obs = Append(@, r.data)] IN
    CASE out = "ok" ->
            AfterStage(r1)
      [] out = "zod" ->
            [Call(r1, "onSchemaErr", ZodErrorOf(ref)) EXCEPT
                !.pc = "onSchemaErr", !.err = ZodErrorOf(ref), !.failedAt = r.i + 1]
      [] OTHER ->
            Catch([r1 EXCEPT !.brokeAt = r.i + 1], InternalError)

\* Variant of Parse: parse() without assertZodError, whatever the validator
\* threw is handed to onSchemaErr.
ParseCoerce(r, ref, out) ==
    LET r1 == [r EXCEPT !.trace = Append(@, ref), !.obs = Append(@, r.data)] IN
    CASE out = "ok" ->
            AfterStage([r1 EXCEPT !.data[ref] = ParsedValue(@)])
      [] out = "zod" ->
            [Call(r1, "onSchemaErr", ZodErrorOf(ref)) EXCEPT
                !.pc = "onSchemaErr", !.err = ZodErrorOf(ref), !.failedAt = r.i + 1]
      [] OTHER ->
            [Call(r1, "onSchemaErr", InternalError) EXCEPT
                !.pc = "onSchemaErr", !.err = InternalError, !.brokeAt = r.i + 1]

\* parse(ref, conn, next) up to its first suspension point, for the outcome
\* out of schemaMap[ref].parse(conn.req[ref]).
Parse(r, ref, out) ==
    LET r0 == StageStarted(r)
        r1 == [r0 EXCEPT !.trace = Append(@, ref), !.obs = Append(@, r.data)] IN
    CASE out = "ok" ->
            AfterStage(StageSettled([r1 EXCEPT !.data[ref] = ParsedValue(@)]))
      [] out = "zod" ->
            [Call(r1, "onSchemaErr", ZodErrorOf(ref)) EXCEPT
                !.pc = "onSchemaErr", !.err = ZodErrorOf(ref), !.failedAt = r.i + 1]
      [] OTHER ->
            Catch(StageSettled([r1 EXCEPT !.brokeAt = r.i + 1]), InternalError)

\* Variant of ParseResume: when onSchemaErr returns with the response not
\* initiated, parse() awaits the response instead of throwing.
ParseResumeAwaitAnswer(r, thr) ==
    IF thr # "none" THEN Catch(r, thr)
    ELSE IF ~r.headersSent THEN [r EXCEPT !.pc = "awaitAnswer"]
    ELSE AfterStage(r)

\* Variant of ParseResume: after onSchemaErr has answered, the loop goes on to
\* the next entry.
ParseResumeKeepGoing(r, thr) ==
    IF thr # "none" THEN Catch(r, thr)
    ELSE IF ~r.headersSent THEN Catch(r, r.err)
    ELSE [r EXCEPT !.i = @ + 1, !.pc = "loop"]

\* Variant of ParseResume: a new error is thrown in place of `throw err`.
ParseResumeNewError(r, thr) ==
    IF thr # "none" THEN Catch(r, thr)
    ELSE IF ~r.headersSent THEN Catch(r, InternalError)
    ELSE AfterStage(r)

\* Variant of ParseResume: parse() without the `throw err` re-throw.
ParseResumeNoRethrow(r, thr) ==
    IF thr # "none" THEN Catch(r, thr) ELSE AfterStage(r)

\* parse() after `await this.handlers.onSchemaErr(err, conn, next)` settled.
ParseResume(r, thr) ==
    IF thr # "none" THEN Catch(r, thr)
    ELSE IF ~r.headersSent THEN Catch(r, r.err)
    ELSE AfterStage(r)

\* Variant of UseCall: the context is kept on the Suvidha instance, so the
\* spread starts from what the latest other request left there.
UseCallShared(r, fn) ==
    LET others == {id \in DOMAIN reqs : reqs[id] # r /\ reqs[id].context # EmptyCtx}
        shared == IF others = {} THEN r.context
                  ELSE reqs[CHOOSE id \in others : TRUE].context
    IN [r EXCEPT !.pc = "use", !.base = shared,
                 !.trace = Append(@, fn), !.seen = Append(@, shared),
                 !.obs = Append(@, r.data)]

\* Variant of UseCall: useFn(req, res) is called without await and the loop
\* goes on while its promise is pending.
UseCallNoAwait(r, fn) ==
    [StageStarted(r) EXCEPT !.pc = "loop", !.i = @ + 1,
              !.trace = Append(@, fn), !.seen = Append(@, r.context),
              !.obs = Append(@, r.data)]

\* The middleware branch of the loop up to `await useFn(req, res)`.
UseCall(r, fn) ==
    [StageStarted(r) EXCEPT !.pc = "use", !.base = r.context,
              !.trace = Append(@, fn), !.seen = Append(@, r.context),
              !.obs = Append(@, r.data)]

\* Variant of UseResume: the spread of req.context is taken after the await,
\* from the object the middleware had in hand.
UseResumeSpreadLate(r, ret, thr) ==
    IF thr # "none" THEN Catch(r, thr)
    ELSE AfterStage([r EXCEPT !.context = Merge(r.context, ret),
                              !.rets = Append(@, [fn |-> r.trace[Len(r.trace)], ret |-> ret])])

\* Variant of UseResume: what the middleware throws is swallowed.
UseResumeSwallow(r, ret, thr) ==
    IF thr # "none" THEN AfterStage(r)
    ELSE AfterStage([r EXCEPT !.context = Merge(r.base, ret),
                              !.rets = Append(@, [fn |-> r.trace[Len(r.trace)], ret |-> ret])])

\* Variant of UseResume: headersSent is tested before the throw is looked at.
UseResumeSentFirst(r, ret, thr) ==
    IF r.headersSent THEN Return(r)
    ELSE IF thr # "none" THEN Catch(r, thr)
    ELSE AfterStage([r EXCEPT !.context = Merge(r.base, ret),
                              !.rets = Append(@, [fn |-> r.trace[Len(r.trace)], ret |-> ret])])

\* Variant of UseResume: req.context = await useFn(req, res), nothing kept.
UseResumeReplace(r, ret, thr) ==
    IF thr # "none" THEN Catch(r, thr)
    ELSE AfterStage([r EXCEPT !.context = ret,
                              !.rets = Append(@, [fn |-> r.trace[Len(r.trace)], ret |-> ret])])

\* req.context = { ...req.context, ...(await useFn(req, res)) } once settled.
UseResume(r, ret, thr) ==
    IF thr # "none" THEN Catch(r, thr)
    ELSE AfterStage([r EXCEPT !.context = Merge(r.base, ret),
                              !.rets = Append(@, [fn |-> r.trace[Len(r.trace)], ret |-> ret])])

\* const output = await handler(req, res, next): the call.
HandlerCall(r) ==
    [StageStarted(r) EXCEPT !.pc = "handler", !.trace = Append(@, "handler"), !.hSeen = <<r.context>>,
              !.obs = Append(@, r.data)]

\* Variant of CallNext: next is handed the request.
CallNextWithArg(r) == Return([r EXCEPT !.nextCalls = Append(@, "arg")])

\* next(); at the end of the try block of the next() closure.
CallNext(r) == Return([r EXCEPT !.nextCalls = Append(@, "noarg")])

\* Variant of HandlerResume: without `if (output !== undefined)`, whatever
\* the handler returned after answering goes to onPostResponse.
HandlerResumeObserveAll(r, out, thr) ==
    IF thr # "none" THEN Catch(r, thr)
    ELSE IF r.headersSent
         THEN [Call(r, "onPostResponse", out) EXCEPT !.pc = "onPostResponse"]
         ELSE [Call(r, "onComplete", out) EXCEPT !.pc = "onComplete"]

\* Variant of HandlerResume: the output always goes to onComplete.
HandlerResumeNoSentCheck(r, out, thr) ==
    IF thr # "none" THEN Catch(r, thr)
    ELSE [Call(r, "onComplete", out) EXCEPT !.pc = "onComplete"]

\* Variant of HandlerResume: the headersSent test negated.
HandlerResumeInverted(r, out, thr) ==
    IF thr # "none" THEN Catch(r, thr)
    ELSE IF ~r.headersSent
         THEN IF out # "undefined"
              THEN [Call(r, "onPostResponse", out) EXCEPT !.pc = "onPostResponse"]
              ELSE Return(r)
         ELSE [Call(r, "onComplete", out) EXCEPT !.pc = "onComplete"]

\* The code after `await handler(req, res, next)` settled.
HandlerResume(r, out, thr) ==
    IF thr # "none" THEN Catch(r, thr)
    ELSE IF r.headersSent
         THEN IF out # "undefined"
              THEN [Call(r, "onPostResponse", out) EXCEPT !.pc = "onPostResponse"]
              ELSE Return(r)
         ELSE [Call(r, "onComplete", out) EXCEPT !.pc = "onComplete"]

\* Variant of TryCallbackResume: the await is outside the try block, a throw
\* leaves the closure.
TryCallbackResumePropagate(r, thr) == IF thr # "none" THEN Reject(r) ELSE Return(r)

\* A callback awaited inside the try block settled.
TryCallbackResume(r, thr) == IF thr # "none" THEN Catch(r, thr) ELSE Return(r)

\* Variant of CatchCallbackResume: what the callback throws is dropped
\* (.catch(() => {})), the closure returns.
CatchCallbackResumeSwallow(r, thr) == Return(r)

\* Variant of CatchCallbackResume: a throwing callback is caught once more.
CatchCallbackResumeRetry(r, thr) == IF thr # "none" THEN Catch(r, thr) ELSE Return(r)

\* A callback awaited inside the catch block settled.
CatchCallbackResume(r, thr) == IF thr # "none" THEN Reject(r) ELSE Return(r)

\* History: a callback called from the try block threw thr.
NoteThrow(r, thr) == IF thr # "none" THEN [r EXCEPT !.cbThrew = thr] ELSE r

\* ---------------------------------------------------------- DefaultHandlers
\* conn.res.status(status).send(payload) after setHeaders(conn, headers).
Write(r, who, status, payload, headers) ==
    [r EXCEPT !.resp = Append(@, [by |-> who, status |-> status, payload |-> payload,
                                  headers |-> headers, late |-> r.headersSent]),
              !.headersSent = TRUE,
              !.sentBy = IF r.headersSent THEN @ ELSE who,
              !.sentAt = IF r.headersSent THEN @ ELSE r.i + 1,
              !.atSend = IF r.headersSent THEN @
                         ELSE [context |-> r.context, calls |-> Len(r.calls),
                               trace |-> Len(r.trace)]]

\* The value the callback being awaited was called with.
Arg(r) == r.calls[Len(r.calls)][2]

\* Variant of DefOnErr: what is not an Http.End is thrown again.
DefOnErrRethrow(r) ==
    LET x == Shape(Arg(r)) IN
    IF x.end
    THEN [r |-> Write(r, "onErr", x.status,
                      DefaultFormatter(x.status, x.body, x.meta), x.headers),
          thr |-> "none"]
    ELSE [r |-> r, thr |-> Arg(r)]

\* DefaultHandlers.onErr(err, conn): the state it leaves and what it throws.
DefOnErr(r) ==
    LET x == Shape(Arg(r)) IN
    IF x.end
    THEN [r |-> Write(r, "onErr", x.status,
                      DefaultFormatter(x.status, x.body, x.meta), x.headers),
          thr |-> "none"]
    ELSE [r |-> Write(r, "onErr", 500,
                      DefaultFormatter(500, "'Internal Server Error'", "{}"), "{}"),
          thr |-> "none"]

\* DefaultHandlers.onSchemaErr: throws Http.BadRequest, writes nothing.
DefOnSchemaErr(r) == [r |-> r, thr |-> "BadRequest"]

\* Variant of DefOnComplete: the switch without its default case, every type
\* is sent at 200.
DefOnCompleteForwardAll(r) ==
    LET x == Shape(Arg(r))
        e == IF IsProtocol(x) /\ ~x.end THEN HttpEnd(x) ELSE x
    IN IF e.end
       THEN [r |-> Write(r, "onComplete", e.status,
                         DefaultFormatter(e.status, e.body, e.meta), e.headers),
             thr |-> "none"]
       ELSE [r |-> Write(r, "onComplete", 200,
                         DefaultFormatter(200,
                             IF Arg(r) = "undefined" THEN "null" ELSE Arg(r), "{}"),
                         "{}"),
             thr |-> "none"]

\* DefaultHandlers.onComplete(output, conn)
DefOnComplete(r) ==
    LET x == Shape(Arg(r))
        e == IF IsProtocol(x) /\ ~x.end THEN HttpEnd(x) ELSE x
    IN IF e.end
       THEN [r |-> Write(r, "onComplete", e.status,
                         DefaultFormatter(e.status, e.body, e.meta), e.headers),
             thr |-> "none"]
       ELSE IF e.type \in {"string", "number", "boolean", "undefined", "object"}
       THEN [r |-> Write(r, "onComplete", 200,
                         DefaultFormatter(200,
                             IF Arg(r) = "undefined" THEN "null" ELSE Arg(r), "{}"),
                         "{}"),
             thr |-> "none"]
       ELSE [r |-> r, thr |-> "InternalServerError"]

\* DefaultHandlers.onPostResponse: console.warn only.
DefOnPostResponse(r) == [r |-> r, thr |-> "none"]

\* History: the middleware of the current loop entry threw thr.
NoteUseThrow(r, thr) ==
    IF thr # "none"
    THEN [r EXCEPT !.useThrew = [at |-> r.i + 1, val |-> thr, sent |-> r.headersSent]]
    ELSE r

\* History: a callback called from the catch block threw thr.
NoteCatchThrow(r, thr) == IF thr # "none" THEN [r EXCEPT !.catchThrew = thr] ELSE r

\* ------------------------------------------------------------------ builder
\* The caller chains at most MaxOrder declarations and then calls handler().
CanDeclare == ~built /\ Len(order) < MaxOrder

\* Variant of Declare: the tag is put in front (unshift) instead of pushed.
DeclarePrepend(entry, what) ==
    /\ order' = <<entry>> \o order
    /\ decl' = Append(decl, what)

\* this.order.push(<tag>), and the record of the fluent call made.
Declare(entry, what) ==
    /\ order' = Append(order, entry)
    /\ decl' = Append(decl, what)

Body ==
    /\ CanDeclare
    /\ Declare(RefEntry("body"), "body")
    /\ UNCHANGED <<useHandlers, built, closure, reqs, app>>

Query ==
    /\ CanDeclare
    /\ Declare(RefEntry("query"), "query")
    /\ UNCHANGED <<useHandlers, built, closure, reqs, app>>

Params ==
    /\ CanDeclare
    /\ Declare(RefEntry("params"), "params")
    /\ UNCHANGED <<useHandlers, built, closure, reqs, app>>

\* Variant of Use: the two pushes swapped, the tag is the length of
\* useHandlers after the middleware was added.
UseTagAfterPush ==
    /\ CanDeclare
    /\ \E fn \in MwFns :
        /\ Declare(UseEntry(Len(useHandlers) + 1), fn)
        /\ useHandlers' = Append(useHandlers, fn)
    /\ UNCHANGED <<built, closure, reqs, app>>

\* this.order.push(this.useHandlers.length); this.useHandlers.push(middleware)
Use ==
    /\ CanDeclare
    /\ \E fn \in MwFns :
        /\ Declare(UseEntry(Len(useHandlers)), fn)
        /\ useHandlers' = Append(useHandlers, fn)
    /\ UNCHANGED <<built, closure, reqs, app>>

\* handler(fn): the request handler is created and registered with the router.
Handler ==
    /\ ~built
    /\ built' = TRUE
    /\ closure' = [kind |-> "handler", at |-> Len(decl)]
    /\ UNCHANGED <<order, useHandlers, decl, reqs, app>>

\* next(): the request handler that ends in Express's next() is created and
\* registered with the router.
NextBuild ==
    /\ ~built
    /\ built' = TRUE
    /\ closure' = [kind |-> "next", at |-> Len(decl)]
    /\ UNCHANGED <<order, useHandlers, decl, reqs, app>>

\* body/query/params(schema) called on the builder after handler() returned:
\* the same this.order is pushed to.
LateData ==
    /\ built
    /\ Len(order) < MaxOrder
    /\ \E ref \in DataRef : Declare(RefEntry(ref), ref)
    /\ UNCHANGED <<useHandlers, built, closure, reqs, app>>

\* use(middleware) called on the builder after handler() returned.
LateUse ==
    /\ built
    /\ Len(order) < MaxOrder
    /\ \E fn \in MwFns :
        /\ Declare(UseEntry(Len(useHandlers)), fn)
        /\ useHandlers' = Append(useHandlers, fn)
    /\ UNCHANGED <<built, closure, reqs, app>>

\* ------------------------------------------------------- the request handler
\* The channels order holds a validation tag for.
DeclaredRefs == {order[j].ref : j \in 1..Len(order)} \cap DataRef

Step(id, r) ==
    /\ reqs' = [reqs EXCEPT ![id] = r]
    /\ UNCHANGED <<order, useHandlers, decl, built, closure, app>>

\* A request reaches the closure: initializeContext(req); const conn = {req, res}
\* The request carries some value in each channel; only the channels some
\* validation is declared for are varied.
Arrive(id) ==
    /\ built
    /\ reqs[id].pc = "idle"
    /\ \E k \in [DataRef -> DataKinds] :
        /\ \A c \in DataRef \ DeclaredRefs : k[c] = "good"
        /\ Step(id, [reqs[id] EXCEPT !.pc = "loop", !.context = EmptyCtx,
                                     !.via = closure.kind,
                                     !.data = [c \in DataRef |-> ClientValue(k[c])],
                                     !.client = [c \in DataRef |-> ClientValue(k[c])]])

\* for (const ref of this.order) with typeof ref === "string"
Validate(id) ==
    LET r == reqs[id] IN
    /\ r.pc = "loop"
    /\ r.i < Len(order)
    /\ order[r.i + 1].kind = "data"
    /\ LET ref == order[r.i + 1].ref IN
       Step(id, Parse(r, ref, ParseOutcomeOf(r.data[ref])))

\* onSchemaErr settles; it may have written the response, and it may throw.
SchemaErrSettle(id) ==
    LET r == reqs[id] IN
    /\ r.pc = "onSchemaErr"
    /\ \E sends \in BOOLEAN, thr \in Thrown \cup {"none"} :
        Step(id, ParseResume(NoteThrow(Send(StageSettled(r), sends, "onSchemaErr"), thr), thr))

\* onSchemaErr hands the error on with next(err) and returns; the Express
\* error middleware next runs may or may not have answered by then.
SchemaErrDelegate(id) ==
    LET r == reqs[id] IN
    /\ r.pc = "onSchemaErr"
    /\ \E sends \in BOOLEAN :
        Step(id, ParseResume(Send([StageSettled(r) EXCEPT !.nextCalls = Append(@, "err")],
                                  sends, "next"), "none"))

\* for (const ref of this.order) with a numeric ref
UseStart(id) ==
    LET r == reqs[id] IN
    /\ r.pc = "loop"
    /\ r.i < Len(order)
    /\ order[r.i + 1].kind = "use"
    /\ Step(id, UseCall(r, useHandlers[order[r.i + 1].idx + 1]))

\* The middleware settles: it may have written the response; it returns a
\* partial context or throws.
UseSettle(id) ==
    LET r == reqs[id] IN
    /\ r.pc = "use"
    /\ \E ret \in MwReturns, sends \in BOOLEAN, thr \in Thrown \cup {"none"} :
        Step(id, UseResume(NoteUseThrow(Send(StageSettled(r), sends, "use"), thr), ret, thr))

\* The running middleware writes to the req.context object it was handed
\* (the Readonly wrapper exists at compile time only).
UseMutate(id) ==
    LET r == reqs[id] IN
    /\ r.pc = "use"
    /\ \E c \in Context \ {r.context} :
        Step(id, [r EXCEPT !.context = c, !.mutated = TRUE])

\* The running middleware assigns a channel of the request (req.body = ...),
\* once per channel.
UseWrite(id) ==
    LET r == reqs[id] IN
    /\ r.pc = "use"
    /\ \E c \in Writable, k \in WrittenKinds :
        /\ r.data[c].by # r.i + 1
        /\ Step(id, [r EXCEPT !.data[c] = WrittenValue(r.i + 1, k),
                              !.writes = @ \cup {[at |-> r.i + 1, ref |-> c, kind |-> k]}])

\* The middleware settles, returning no context of its own.
UseSettlePlain(id) ==
    LET r == reqs[id] IN
    /\ r.pc = "use"
    /\ \E ret \in PlainReturns, sends \in BOOLEAN, thr \in Thrown \cup {"none"} :
        Step(id, UseResume(NoteUseThrow(Send(StageSettled(r), sends, "use"), thr), ret, thr))

\* While the middleware is suspended, something outside the closure (a timeout
\* handler of the transport) writes the response: res.headersSent turns true.
ExternalSend(id) ==
    LET r == reqs[id] IN
    /\ r.pc = "use"
    /\ ~r.headersSent
    /\ Step(id, Send(r, TRUE, "external"))

\* The middleware settles, in a service whose user code throws plain errors
\* or Http errors.
DefUseSettle(id) ==
    LET r == reqs[id] IN
    /\ r.pc = "use"
    /\ \E ret \in PlainReturns, sends \in BOOLEAN, thr \in DefThrown \cup {"none"} :
        Step(id, UseResume(NoteUseThrow(Send(StageSettled(r), sends, "use"), thr), ret, thr))

\* The terminal handler settles with a value of any of the kinds DefaultHandlers
\* tells apart.
DefHandlerSettle(id) ==
    LET r == reqs[id] IN
    /\ r.pc = "handler"
    /\ \E sends \in BOOLEAN, out \in DefOutputs, thr \in DefThrown \cup {"none"} :
        LET r1 == Send(StageSettled(r), sends, "handler")
            r2 == [r1 EXCEPT !.hOut =
                     IF thr # "none"
                     THEN [kind |-> "throw", val |-> thr, sent |-> r1.headersSent]
                     ELSE [kind |-> "return", val |-> out, sent |-> r1.headersSent]]
        IN Step(id, HandlerResume(r2, out, thr))

\* The awaited default callback settles.
DefSchemaErrSettle(id) ==
    LET r == reqs[id]
        o == DefOnSchemaErr(StageSettled(r)) IN
    /\ r.pc = "onSchemaErr"
    /\ Step(id, ParseResume(NoteThrow(o.r, o.thr), o.thr))

DefCompleteSettle(id) ==
    LET r == reqs[id]
        o == DefOnComplete(r) IN
    /\ r.pc = "onComplete"
    /\ Step(id, TryCallbackResume(NoteThrow(o.r, o.thr), o.thr))

DefPostResponseSettle(id) ==
    LET r == reqs[id]
        o == DefOnPostResponse(r) IN
    /\ r.pc = "onPostResponse"
    /\ Step(id, TryCallbackResume(NoteThrow(o.r, o.thr), o.thr))

DefErrSettle(id) ==
    LET r == reqs[id]
        o == DefOnErr(r) IN
    /\ r.pc = "onErr"
    /\ Step(id, CatchCallbackResume(NoteCatchThrow(o.r, o.thr), o.thr))

DefCatchPostResponseSettle(id) ==
    LET r == reqs[id]
        o == DefOnPostResponse(r) IN
    /\ r.pc = "catchPostResponse"
    /\ Step(id, CatchCallbackResume(NoteCatchThrow(o.r, o.thr), o.thr))

\* The loop is exhausted: the terminal handler is called.
HandlerStart(id) ==
    LET r == reqs[id] IN
    /\ r.pc = "loop"
    /\ r.i >= Len(order)
    /\ r.via = "handler"
    /\ Step(id, HandlerCall(r))

\* The loop of the next() closure is exhausted: next() is called and the
\* closure returns.
NextCall(id) ==
    LET r == reqs[id] IN
    /\ r.pc = "loop"
    /\ r.i >= Len(order)
    /\ r.via = "next"
    /\ Step(id, CallNext(r))

\* The terminal handler settles: it may have written the response; it returns
\* a value or throws.
HandlerSettle(id) ==
    LET r == reqs[id] IN
    /\ r.pc = "handler"
    /\ \E sends \in BOOLEAN, out \in Outputs, thr \in Thrown \cup {"none"} :
        LET r1 == Send(StageSettled(r), sends, "handler")
            r2 == [r1 EXCEPT !.hOut =
                     IF thr # "none"
                     THEN [kind |-> "throw", val |-> thr, sent |-> r1.headersSent]
                     ELSE [kind |-> "return", val |-> out, sent |-> r1.headersSent]]
        IN Step(id, HandlerResume(r2, out, thr))

\* onComplete settles.
CompleteSettle(id) ==
    LET r == reqs[id] IN
    /\ r.pc = "onComplete"
    /\ \E sends \in BOOLEAN, thr \in Thrown \cup {"none"} :
        Step(id, TryCallbackResume(NoteThrow(Send(r, sends, "onComplete"), thr), thr))

\* onPostResponse, called from the try block, settles.
PostResponseSettle(id) ==
    LET r == reqs[id] IN
    /\ r.pc = "onPostResponse"
    /\ \E thr \in Thrown \cup {"none"} :
        Step(id, TryCallbackResume(NoteThrow(r, thr), thr))

\* onErr, called from the catch block, settles.
ErrSettle(id) ==
    LET r == reqs[id] IN
    /\ r.pc = "onErr"
    /\ \E sends \in BOOLEAN, thr \in Thrown \cup {"none"} :
        Step(id, CatchCallbackResume(NoteCatchThrow(Send(r, sends, "onErr"), thr), thr))

\* onPostResponse, called from the catch block, settles.
CatchPostResponseSettle(id) ==
    LET r == reqs[id] IN
    /\ r.pc = "catchPostResponse"
    /\ \E thr \in Thrown \cup {"none"} :
        Step(id, CatchCallbackResume(NoteCatchThrow(r, thr), thr))

Next ==
    \/ Body
    \/ Query
    \/ Params
    \/ Use
    \/ Handler
    \/ \E id \in ReqIds : Arrive(id)
    \/ \E id \in ReqIds : Validate(id)
    \/ \E id \in ReqIds : SchemaErrSettle(id)
    \/ \E id \in ReqIds : UseStart(id)
    \/ \E id \in ReqIds : UseMutate(id)
    \/ \E id \in ReqIds : UseSettle(id)
    \/ \E id \in ReqIds : HandlerStart(id)
    \/ \E id \in ReqIds : HandlerSettle(id)
    \/ \E id \in ReqIds : CompleteSettle(id)
    \/ \E id \in ReqIds : PostResponseSettle(id)
    \/ \E id \in ReqIds : ErrSettle(id)
    \/ \E id \in ReqIds : CatchPostResponseSettle(id)

Spec == Init /\ [][Next]_vars

\* The runs in which middleware rewrite the request data.
NextData ==
    \/ Body
    \/ Query
    \/ Params
    \/ Use
    \/ Handler
    \/ \E id \in ReqIds : Arrive(id)
    \/ \E id \in ReqIds : Validate(id)
    \/ \E id \in ReqIds : SchemaErrSettle(id)
    \/ \E id \in ReqIds : UseStart(id)
    \/ \E id \in ReqIds : UseWrite(id)
    \/ \E id \in ReqIds : UseSettlePlain(id)
    \/ \E id \in ReqIds : HandlerStart(id)
    \/ \E id \in ReqIds : HandlerSettle(id)
    \/ \E id \in ReqIds : CompleteSettle(id)
    \/ \E id \in ReqIds : PostResponseSettle(id)
    \/ \E id \in ReqIds : ErrSettle(id)
    \/ \E id \in ReqIds : CatchPostResponseSettle(id)

SpecData == Init /\ [][NextData]_vars

\* The runs in which the transport may answer while a middleware is suspended.
NextExt ==
    \/ Body
    \/ Query
    \/ Params
    \/ Use
    \/ Handler
    \/ \E id \in ReqIds : Arrive(id)
    \/ \E id \in ReqIds : Validate(id)
    \/ \E id \in ReqIds : SchemaErrSettle(id)
    \/ \E id \in ReqIds : UseStart(id)
    \/ \E id \in ReqIds : ExternalSend(id)
    \/ \E id \in ReqIds : UseSettlePlain(id)
    \/ \E id \in ReqIds : HandlerStart(id)
    \/ \E id \in ReqIds : HandlerSettle(id)
    \/ \E id \in ReqIds : CompleteSettle(id)
    \/ \E id \in ReqIds : PostResponseSettle(id)
    \/ \E id \in ReqIds : ErrSettle(id)
    \/ \E id \in ReqIds : CatchPostResponseSettle(id)

SpecExt == Init /\ [][NextExt]_vars

\* The runs of a service built with Suvidha.create(DefaultHandlers.create()).
NextDef ==
    \/ Body
    \/ Query
    \/ Params
    \/ Use
    \/ Handler
    \/ \E id \in ReqIds : Arrive(id)
    \/ \E id \in ReqIds : Validate(id)
    \/ \E id \in ReqIds : DefSchemaErrSettle(id)
    \/ \E id \in ReqIds : UseStart(id)
    \/ \E id \in ReqIds : DefUseSettle(id)
    \/ \E id \in ReqIds : HandlerStart(id)
    \/ \E id \in ReqIds : DefHandlerSettle(id)
    \/ \E id \in ReqIds : DefCompleteSettle(id)
    \/ \E id \in ReqIds : DefPostResponseSettle(id)
    \/ \E id \in ReqIds : DefErrSettle(id)
    \/ \E id \in ReqIds : DefCatchPostResponseSettle(id)

SpecDef == Init /\ [][NextDef]_vars

\* The runs in which onSchemaErr may delegate with next(err).
NextDelegate ==
    \/ Body
    \/ Query
    \/ Params
    \/ Use
    \/ Handler
    \/ \E id \in ReqIds : Arrive(id)
    \/ \E id \in ReqIds : Validate(id)
    \/ \E id \in ReqIds : SchemaErrSettle(id)
    \/ \E id \in ReqIds : SchemaErrDelegate(id)
    \/ \E id \in ReqIds : UseStart(id)
    \/ \E id \in ReqIds : UseSettlePlain(id)
    \/ \E id \in ReqIds : HandlerStart(id)
    \/ \E id \in ReqIds : HandlerSettle(id)
    \/ \E id \in ReqIds : CompleteSettle(id)
    \/ \E id \in ReqIds : PostResponseSettle(id)
    \/ \E id \in ReqIds : ErrSettle(id)
    \/ \E id \in ReqIds : CatchPostResponseSettle(id)

SpecDelegate == Init /\ [][NextDelegate]_vars

\* ---------------------------------------------------------------------- Pipe
\* Variant of PipeOrder: the order of the destructuring
\* const { body, params, query } = req.
PipeOrderDestructured == <<"body", "params", "query">>

\* validateData parses body, then query, then params.
PipeOrder == <<"body", "query", "params">>

\* req.body / req.query / req.params after validateData returned or threw:
\* a channel is assigned once its schema's parse has returned.
PipeReq(o, parsed) ==
    [c \in DataRef |->
        IF (\E j \in 1..Len(parsed) : parsed[j] = c) /\ o[c] = "ok"
        THEN "parsed" ELSE "raw"]

\* The channels validateData gets to parse: up to and including the first one
\* whose schema throws.
PipeParsed(o) ==
    LET bad == {j \in 1..3 : o[PipeOrder[j]] # "ok"} IN
    IF bad = {} THEN PipeOrder
    ELSE SubSeq(PipeOrder, 1, CHOOSE j \in bad : \A k \in bad : j <= k)

\* Variant of PipeHandler: this.onSchemaErr ?? onSchemaErr, the constructor's
\* callback preferred.
PipeHandlerCtorFirst(a) ==
    LET parsed == PipeParsed(a.outcome)
        last == parsed[Len(parsed)]
        none == [nexts |-> <<>>, cbs |-> <<>>, threw |-> "none", parsed |-> parsed,
                 req |-> PipeReq(a.outcome, parsed)]
    IN IF a.outcome[last] = "ok"
       THEN [none EXCEPT !.nexts = <<"noarg">>]
       ELSE IF a.outcome[last] = "zod"
       THEN IF a.ctor THEN [none EXCEPT !.cbs = <<[by |-> "constructor", err |-> ZodErrorOf(last)]>>]
            ELSE IF a.local THEN [none EXCEPT !.cbs = <<[by |-> "validate", err |-> ZodErrorOf(last)]>>]
            ELSE [none EXCEPT !.nexts = <<ZodErrorOf(last)>>]
       ELSE [none EXCEPT !.threw = "Error"]

\* The request handler validate() returns, run on one request.
PipeHandler(a) ==
    LET parsed == PipeParsed(a.outcome)
        last == parsed[Len(parsed)]
        none == [nexts |-> <<>>, cbs |-> <<>>, threw |-> "none", parsed |-> parsed,
                 req |-> PipeReq(a.outcome, parsed)]
    IN IF a.outcome[last] = "ok"
       THEN [none EXCEPT !.nexts = <<"noarg">>]
       ELSE IF a.outcome[last] = "zod"
       THEN IF a.local THEN [none EXCEPT !.cbs = <<[by |-> "validate", err |-> ZodErrorOf(last)]>>]
            ELSE IF a.ctor THEN [none EXCEPT !.cbs = <<[by |-> "constructor", err |-> ZodErrorOf(last)]>>]
            ELSE [none EXCEPT !.nexts = <<ZodErrorOf(last)>>]
       ELSE [none EXCEPT !.threw = "Error"]

PipeValidate ==
    /\ app.fn = "Pipe.validate"
    /\ ~app.done
    /\ app' = [app EXCEPT !.done = TRUE, !.out = PipeHandler(app.arg)]
    /\ UNCHANGED <<order, useHandlers, decl, built, closure, reqs>>

NextPipe == PipeValidate

SpecPipe == InitPipe /\ [][NextPipe]_vars

\* defaultFormatter(status, body, meta) returns.
Format ==
    /\ app.fn = "defaultFormatter"
    /\ ~app.done
    /\ app' = [app EXCEPT !.done = TRUE,
                          !.out = DefaultFormatter(app.arg.status, app.arg.body, app.arg.meta)]
    /\ UNCHANGED <<order, useHandlers, decl, built, closure, reqs>>

NextFmt == Format

SpecFmt == InitFmt /\ [][NextFmt]_vars

\* The runs of a request handler made by next().
NextNext ==
    \/ Body
    \/ Query
    \/ Params
    \/ Use
    \/ NextBuild
    \/ \E id \in ReqIds : Arrive(id)
    \/ \E id \in ReqIds : Validate(id)
    \/ \E id \in ReqIds : SchemaErrSettle(id)
    \/ \E id \in ReqIds : UseStart(id)
    \/ \E id \in ReqIds : UseSettle(id)
    \/ \E id \in ReqIds : NextCall(id)
    \/ \E id \in ReqIds : ErrSettle(id)
    \/ \E id \in ReqIds : CatchPostResponseSettle(id)

SpecNext == Init /\ [][NextNext]_vars

\* The runs of two requests through one request handler, their steps
\* interleaved at the await points.
NextConc ==
    \/ \E id \in ConcIds : Arrive(id)
    \/ \E id \in ConcIds : UseStart(id)
    \/ \E id \in ConcIds : UseSettle(id)
    \/ \E id \in ConcIds : HandlerStart(id)
    \/ \E id \in ConcIds : HandlerSettle(id)
    \/ \E id \in ConcIds : CompleteSettle(id)
    \/ \E id \in ConcIds : PostResponseSettle(id)
    \/ \E id \in ConcIds : ErrSettle(id)
    \/ \E id \in ConcIds : CatchPostResponseSettle(id)

SpecConc == InitConc /\ [][NextConc]_vars

\* The runs in which the builder is still used after handler() returned.
NextLate ==
    \/ Body
    \/ Query
    \/ Params
    \/ Use
    \/ Handler
    \/ LateData
    \/ LateUse
    \/ \E id \in ReqIds : Arrive(id)
    \/ \E id \in ReqIds : Validate(id)
    \/ \E id \in ReqIds : SchemaErrSettle(id)
    \/ \E id \in ReqIds : UseStart(id)
    \/ \E id \in ReqIds : UseSettlePlain(id)
    \/ \E id \in ReqIds : HandlerStart(id)
    \/ \E id \in ReqIds : HandlerSettle(id)
    \/ \E id \in ReqIds : CompleteSettle(id)
    \/ \E id \in ReqIds : PostResponseSettle(id)
    \/ \E id \in ReqIds : ErrSettle(id)
    \/ \E id \in ReqIds : CatchPostResponseSettle(id)

SpecLate == Init /\ [][NextLate]_vars

\* The steps of the closure and the settling of what it awaits, for one
\* request through a request handler made by handler().
NextLive ==
    \/ \E id \in ReqIds : Arrive(id)
    \/ \E id \in ReqIds : Validate(id)
    \/ \E id \in ReqIds : SchemaErrSettle(id)
    \/ \E id \in ReqIds : UseStart(id)
    \/ \E id \in ReqIds : UseSettle(id)
    \/ \E id \in ReqIds : HandlerStart(id)
    \/ \E id \in ReqIds : HandlerSettle(id)
    \/ \E id \in ReqIds : CompleteSettle(id)
    \/ \E id \in ReqIds : PostResponseSettle(id)
    \/ \E id \in ReqIds : ErrSettle(id)
    \/ \E id \in ReqIds : CatchPostResponseSettle(id)

\* The event loop runs every continuation that is ready, and every validator,
\* middleware, handler and callback that was called settles.
Settling ==
    \A id \in ReqIds :
        /\ WF_vars(Validate(id))
        /\ WF_vars(SchemaErrSettle(id))
        /\ WF_vars(UseStart(id))
        /\ WF_vars(UseSettle(id))
        /\ WF_vars(HandlerStart(id))
        /\ WF_vars(HandlerSettle(id))
        /\ WF_vars(CompleteSettle(id))
        /\ WF_vars(PostResponseSettle(id))
        /\ WF_vars(ErrSettle(id))
        /\ WF_vars(CatchPostResponseSettle(id))

SpecLive == InitLive /\ [][NextLive]_vars /\ Settling

\* ------------------------------------------------------------- properties
Done(r) == r.pc = "done"

\* The names of the callbacks invoked for a request, in invocation order.
Names(r) == [k \in 1..Len(r.calls) |-> r.calls[k][1]]

Invoked(r, name) == \E k \in 1..Len(r.calls) : r.calls[k][1] = name

Count(r, name) == Cardinality({k \in 1..Len(r.calls) : r.calls[k][1] = name})

IsPrefix(s, t) == Len(s) <= Len(t) /\ s = SubSeq(t, 1, Len(s))

\* C1 as stated: every completed request has had exactly one lifecycle
\* callback invocation.
C1_ExactlyOneCallback ==
    \A id \in ReqIds : Done(reqs[id]) => Len(reqs[id].calls) = 1

\* C1 amended: a request never has more than two callback invocations; a
\* completed request has none only when a middleware, or the terminal handler
\* returning undefined, initiated the response; it has two only when the
\* first one (onSchemaErr, onComplete or onPostResponse, called from the try
\* block) threw or was an onSchemaErr that left the response uninitiated, and
\* the second is then onErr or onPostResponse; otherwise it has exactly one.
C1_CallbackCount ==
    \A id \in ReqIds :
        LET r == reqs[id] IN
        /\ Len(r.calls) <= 2
        /\ (Done(r) /\ Len(r.calls) = 0) =>
              /\ r.headersSent
              /\ r.sentBy \in {"use", "handler"}
              /\ r.sentBy = "handler" =>
                    r.hOut = [kind |-> "return", val |-> "undefined", sent |-> TRUE]
        /\ Len(r.calls) = 2 =>
              /\ r.calls[1][1] \in {"onSchemaErr", "onComplete", "onPostResponse"}
              /\ r.calls[2][1] \in {"onErr", "onPostResponse"}
              /\ \/ r.cbThrew # "none" /\ r.calls[2][2] = r.cbThrew
                 \/ /\ r.calls[1][1] = "onSchemaErr"
                    /\ r.sentBy # "onSchemaErr"
                    /\ r.calls[2] = <<"onErr", r.calls[1][2]>>
        /\ (Done(r) /\ r.cbThrew # "none") => Len(r.calls) = 2

\* The default handlers' case: onSchemaErr throws and onErr answers.
C1_Witness ==
    \E id \in ReqIds :
        /\ Done(reqs[id])
        /\ Names(reqs[id]) = <<"onSchemaErr", "onErr">>
        /\ reqs[id].cbThrew # "none"

\* C2: the stages of a request start in the order of the fluent calls, and
\* the terminal handler starts after the last of them.
C2_DeclarationOrder ==
    \A id \in ReqIds : IsPrefix(reqs[id].trace, Append(decl, "handler"))

\* body, then a middleware, then query: all three ran, then the handler.
C2_Witness ==
    \E id \in ReqIds :
        /\ Len(decl) = 3
        /\ decl[1] \in DataRef /\ decl[2] \in MwFns /\ decl[3] \in DataRef
        /\ reqs[id].trace = Append(decl, "handler")

\* C3: once a middleware has initiated the response, no later order entry
\* is started and the terminal handler is never called.
C3_ShortCircuit ==
    \A id \in ReqIds :
        LET r == reqs[id] IN
        r.sentBy = "use" =>
            /\ Len(r.trace) = r.sentAt
            /\ r.hSeen = <<>>
            /\ r.pc \in {"done", "catchPostResponse"}

\* A middleware that was not the last entry wrote the response.
C3_Witness ==
    \E id \in ReqIds :
        /\ Done(reqs[id])
        /\ reqs[id].sentBy = "use"
        /\ reqs[id].sentAt < Len(order)

\* C4: when a validation raises a ZodError, onSchemaErr is invoked exactly
\* once for the request, and neither an entry declared after the failing
\* one nor the terminal handler is started.
C4_ValidationFailureStops ==
    \A id \in ReqIds :
        LET r == reqs[id] IN
        /\ Count(r, "onSchemaErr") = (IF r.failedAt # 0 THEN 1 ELSE 0)
        /\ r.failedAt # 0 =>
              /\ Len(r.trace) = r.failedAt
              /\ r.trace[r.failedAt] \in DataRef
              /\ r.hSeen = <<>>
              /\ r.i = r.failedAt - 1

\* The failing validation had entries declared after it, and onSchemaErr
\* returned without completing the response.
C4_Witness ==
    \E id \in ReqIds :
        /\ Done(reqs[id])
        /\ reqs[id].failedAt # 0
        /\ reqs[id].failedAt < Len(order)
        /\ reqs[id].sentBy # "onSchemaErr"

\* C5: when the terminal handler has initiated the response and returns a
\* defined value, onPostResponse is invoked with that value, and neither
\* onComplete nor onErr is invoked for the request.
C5_DualResponse ==
    \A id \in ReqIds :
        LET r == reqs[id] IN
        (r.hOut.kind = "return" /\ r.hOut.sent /\ r.hOut.val # "undefined") =>
            /\ r.calls # <<>>
            /\ r.calls[1] = <<"onPostResponse", r.hOut.val>>
            /\ ~Invoked(r, "onComplete")
            /\ ~Invoked(r, "onErr")

\* The handler wrote the response and returned v2; the request completed.
C5_Witness ==
    \E id \in ReqIds :
        /\ Done(reqs[id])
        /\ reqs[id].sentBy = "handler"
        /\ reqs[id].hOut = [kind |-> "return", val |-> "v2", sent |-> TRUE]

\* C6: when the terminal handler has initiated the response and throws,
\* onPostResponse is invoked with the thrown value, and neither onErr nor
\* onComplete is invoked for the request.
C6_ThrowAfterResponse ==
    \A id \in ReqIds :
        LET r == reqs[id] IN
        (r.hOut.kind = "throw" /\ r.hOut.sent) =>
            /\ r.calls # <<>>
            /\ r.calls[1] = <<"onPostResponse", r.hOut.val>>
            /\ ~Invoked(r, "onComplete")
            /\ ~Invoked(r, "onErr")

\* The handler wrote the response and threw e2; the request completed.
C6_Witness ==
    \E id \in ReqIds :
        /\ Done(reqs[id])
        /\ reqs[id].sentBy = "handler"
        /\ reqs[id].hOut = [kind |-> "throw", val |-> "e2", sent |-> TRUE]

\* C7 as stated: when the terminal handler returns normally and the response
\* has not been initiated, onComplete is invoked with the returned value and
\* onErr, onSchemaErr and onPostResponse are not invoked.
C7_OnlyOnComplete ==
    \A id \in ReqIds :
        LET r == reqs[id] IN
        (r.hOut.kind = "return" /\ ~r.hOut.sent) =>
            /\ r.calls # <<>>
            /\ r.calls[1] = <<"onComplete", r.hOut.val>>
            /\ ~Invoked(r, "onErr")
            /\ ~Invoked(r, "onSchemaErr")
            /\ ~Invoked(r, "onPostResponse")

\* C7 amended: in that case onComplete is invoked, first and once, with the
\* returned value, and onSchemaErr is not invoked; onErr or onPostResponse is
\* invoked only when onComplete itself throws, once, with the value it threw:
\* onErr if onComplete left the response uninitiated, onPostResponse if not.
C7_OnCompleteFirst ==
    \A id \in ReqIds :
        LET r == reqs[id] IN
        (r.hOut.kind = "return" /\ ~r.hOut.sent) =>
            /\ r.calls # <<>>
            /\ r.calls[1] = <<"onComplete", r.hOut.val>>
            /\ Count(r, "onComplete") = 1
            /\ ~Invoked(r, "onSchemaErr")
            /\ Len(r.calls) <= 2
            /\ Len(r.calls) = 2 <=> r.cbThrew # "none"
            /\ Len(r.calls) = 2 =>
                  r.calls[2] = <<IF r.sentBy = "onComplete" THEN "onPostResponse" ELSE "onErr",
                                 r.cbThrew>>

\* The handler returned v1 with no response written; onComplete threw, as the
\* default onComplete does for a value it cannot process, and onErr answered.
C7_Witness ==
    \E id \in ReqIds :
        /\ Done(reqs[id])
        /\ reqs[id].hOut = [kind |-> "return", val |-> "v1", sent |-> FALSE]
        /\ Names(reqs[id]) = <<"onComplete", "onErr">>
        /\ Len(reqs[id].trace) > 1

\* C8: when the terminal handler throws and the response has not been
\* initiated, onErr is invoked with the thrown value, and onComplete and
\* onPostResponse are not invoked.
C8_HandlerError ==
    \A id \in ReqIds :
        LET r == reqs[id] IN
        (r.hOut.kind = "throw" /\ ~r.hOut.sent) =>
            /\ r.calls = <<<<"onErr", r.hOut.val>>>>
            /\ ~Invoked(r, "onComplete")
            /\ ~Invoked(r, "onPostResponse")

\* The handler threw e1 with no response written; onErr wrote it.
C8_Witness ==
    \E id \in ReqIds :
        /\ Done(reqs[id])
        /\ reqs[id].hOut = [kind |-> "throw", val |-> "e1", sent |-> FALSE]
        /\ reqs[id].sentBy = "onErr"

\* The values returned by the first n middleware that returned.
RetVals(r, n) == [j \in 1..n |-> r.rets[j].ret]

\* The left-to-right merge of a sequence of partial contexts, stated per key:
\* a key is present once some element has it, with the value of the last
\* element that has it.
LastWins(s) ==
    [k \in UNION {DOMAIN s[j] : j \in 1..Len(s)} |->
        LET last == CHOOSE j \in 1..Len(s) :
                        /\ k \in DOMAIN s[j]
                        /\ \A m \in (j + 1)..Len(s) : k \notin DOMAIN s[m]
        IN s[last][k]]

\* The middleware among the fluent calls, in declaration order.
IsMw(x) == x \in MwFns
DeclaredMw == SelectSeq(decl, IsMw)

\* C9: the context the terminal handler is handed is the left-to-right
\* merge, from the empty context, of what every declared middleware returned,
\* in declaration order: the last value of a key wins and other keys persist;
\* and the contexts handed to successive stages never lose a key.
C9_ContextAccumulation ==
    \A id \in ReqIds :
        LET r == reqs[id] IN
        /\ r.hSeen # <<>> =>
              /\ [j \in 1..Len(r.rets) |-> r.rets[j].fn] = DeclaredMw
              /\ r.hSeen[1] = LastWins(RetVals(r, Len(r.rets)))
              /\ \A k \in 1..Len(r.seen) : DOMAIN r.seen[k] \subseteq DOMAIN r.hSeen[1]
        /\ \A k \in 1..Len(r.seen) : \A j \in 1..k :
              DOMAIN r.seen[j] \subseteq DOMAIN r.seen[k]
        /\ r.pc = "loop" => r.context = LastWins(RetVals(r, Len(r.rets)))

\* Three middleware returned {a:1}, {b:1}, {a:2}: the handler sees {a:2, b:1}.
C9_Witness ==
    \E id \in ReqIds :
        /\ Len(reqs[id].rets) = 3
        /\ RetVals(reqs[id], 3) =
              <<[k \in {"a"} |-> 1], [k \in {"b"} |-> 1], [k \in {"a"} |-> 2]>>
        /\ reqs[id].hSeen = <<[k \in {"a", "b"} |-> IF k = "a" THEN 2 ELSE 1]>>

\* C10: the context handed to the n-th middleware to run is exactly the merge
\* of what the middleware declared before it returned: it has every earlier
\* contribution and nothing of its own or of later middleware.
C10_ContextSoFar ==
    \A id \in ReqIds :
        LET r == reqs[id] IN
        \A n \in 1..Len(r.seen) :
            /\ Len(r.rets) >= n - 1
            /\ r.seen[n] = LastWins(RetVals(r, n - 1))
            /\ [j \in 1..(n - 1) |-> r.rets[j].fn] = SubSeq(DeclaredMw, 1, n - 1)

\* The third middleware is handed {a:1, b:1} from the first two, and itself
\* returns {a:2}, which is not in what it was handed.
C10_Witness ==
    \E id \in ReqIds :
        /\ Len(reqs[id].seen) = 3
        /\ reqs[id].seen[2] = [k \in {"a"} |-> 1]
        /\ reqs[id].seen[3] = [k \in {"a", "b"} |-> 1]
        /\ Len(reqs[id].rets) = 3
        /\ reqs[id].rets[3].ret = [k \in {"a"} |-> 2]

\* The value of channel c the stage at position p is expected to find: what
\* the last middleware before p that assigned c put there, or else what the
\* client sent; parsed if a validation of c ran after that and before p.
ExpectedValue(r, c, p) ==
    LET ws == {w \in r.writes : w.ref = c /\ w.at < p}
        from == IF ws = {} THEN 0 ELSE (CHOOSE w \in ws : \A v \in ws : v.at <= w.at).at
        kind == IF ws = {} THEN r.client[c].kind
                ELSE (CHOOSE w \in ws : \A v \in ws : v.at <= w.at).kind
    IN [by |-> from, kind |-> kind,
        parsed |-> \E q \in (from + 1)..(p - 1) : r.trace[q] = c]

\* C11 as stated: a middleware or handler started after a validation of a
\* channel finds the parsed value of that channel, never a raw one; and a
\* validation started after a middleware finds the channel as the last
\* middleware that assigned it left it.
C11_AlwaysParsed ==
    \A id \in ReqIds :
        LET r == reqs[id] IN
        \A p \in 1..Len(r.trace) :
            /\ r.trace[p] \notin DataRef =>
                  \A q \in 1..(p - 1) :
                      r.trace[q] \in DataRef => r.obs[p][r.trace[q]].parsed
            /\ r.trace[p] \in DataRef =>
                  \A w \in r.writes :
                      (w.ref = r.trace[p] /\ w.at < p
                         /\ \A v \in r.writes : (v.ref = w.ref /\ v.at < p) => v.at <= w.at)
                      => (r.obs[p][w.ref].by = w.at /\ r.obs[p][w.ref].kind = w.kind)

\* C11 amended: every stage finds in each channel the value left by the last
\* earlier middleware that assigned it (else the client's), parsed exactly
\* when a validation of that channel ran in between.  So a stage after a
\* validation finds the parsed value unless a middleware between the two
\* assigned the channel, and a validation parses what the middleware left.
C11_DataFlow ==
    \A id \in ReqIds :
        LET r == reqs[id] IN
        /\ Len(r.obs) = Len(r.trace)
        /\ \A p \in 1..Len(r.trace) : \A c \in DataRef :
              r.obs[p][c] = ExpectedValue(r, c, p)
        /\ \A p \in 1..Len(r.trace) : \A q \in 1..(p - 1) :
              (/\ r.trace[q] \in DataRef
               /\ \A w \in r.writes : ~(w.ref = r.trace[q] /\ q < w.at /\ w.at < p))
              => r.obs[p][r.trace[q]].parsed

\* A middleware assigned body, the body validation after it parsed what the
\* middleware wrote, and the terminal handler found that parsed value.
C11_Witness ==
    \E id \in ReqIds :
        LET r == reqs[id] IN
        /\ Len(r.trace) = 3
        /\ r.trace[1] \in MwFns /\ r.trace[2] = "body" /\ r.trace[3] = "handler"
        /\ r.client["body"].kind = "bad"
        /\ r.obs[2]["body"] = [by |-> 1, kind |-> "good", parsed |-> FALSE]
        /\ r.obs[3]["body"] = [by |-> 1, kind |-> "good", parsed |-> TRUE]

\* The declared positions whose channel the client sent invalid and that no
\* middleware assigned.
BadPositions(r) ==
    {j \in 1..Len(decl) :
        /\ decl[j] \in DataRef
        /\ r.client[decl[j]].kind = "bad"
        /\ \A w \in r.writes : w.ref # decl[j]}

BadChannels(r) == {decl[j] : j \in BadPositions(r)}

FirstBad(r) == CHOOSE j \in BadPositions(r) : \A k \in BadPositions(r) : j <= k

\* C12: when two or more declared channels hold invalid data, onSchemaErr is
\* invoked at most once, with the error of the first failing channel in
\* declaration order, and no channel declared after it is parsed.
C12_FirstFailureOnly ==
    \A id \in ReqIds :
        LET r == reqs[id] IN
        Cardinality(BadChannels(r)) >= 2 =>
            /\ Count(r, "onSchemaErr") <= 1
            /\ Len(r.trace) <= FirstBad(r)
            /\ Len(r.trace) = FirstBad(r) =>
                  /\ r.failedAt = FirstBad(r)
                  /\ r.calls[1] = <<"onSchemaErr", ZodErrorOf(decl[FirstBad(r)])>>
            /\ \A k \in 1..Len(r.calls) :
                  r.calls[k][1] = "onSchemaErr" =>
                      /\ r.failedAt = Len(r.trace)
                      /\ r.calls[k][2] = ZodErrorOf(r.trace[r.failedAt])
                      /\ \A q \in 1..(r.failedAt - 1) :
                            r.trace[q] \in DataRef => r.obs[q][r.trace[q]].kind = "good"
            /\ \A j \in BadPositions(r) :
                  j > FirstBad(r) => ~(Len(r.trace) >= j /\ r.trace[j] = decl[j])

\* Query and params were declared in that order and both invalid; the request
\* ended with onSchemaErr told about query only and params never parsed.
C12_Witness ==
    \E id \in ReqIds :
        LET r == reqs[id] IN
        /\ Done(r)
        /\ Len(decl) >= 2 /\ decl[1] = "query" /\ decl[2] = "params"
        /\ r.client["query"].kind = "bad" /\ r.client["params"].kind = "bad"
        /\ r.trace = <<"query">>
        /\ r.headersSent
        /\ r.calls = <<<<"onSchemaErr", ZodErrorOf("query")>>>>

\* onSchemaErr was called for a failed validation and has returned without
\* throwing and without writing the response.
SchemaErrReturnedUnsent(r) ==
    /\ r.failedAt # 0
    /\ r.pc # "onSchemaErr"
    /\ r.cbThrew = "none"
    /\ r.sentBy # "onSchemaErr"

\* C13: when a validation fails and onSchemaErr returns without the response
\* initiated, the original validation error is re-thrown: no later stage and
\* no terminal handler runs, and onErr is called with that same error.
C13_RethrowToOnErr ==
    \A id \in ReqIds :
        LET r == reqs[id] IN
        SchemaErrReturnedUnsent(r) =>
            /\ Len(r.trace) = r.failedAt
            /\ r.trace[r.failedAt] \in DataRef
            /\ r.hSeen = <<>>
            /\ r.calls = << <<"onSchemaErr", ZodErrorOf(r.trace[r.failedAt])>>,
                            <<"onErr", ZodErrorOf(r.trace[r.failedAt])>> >>

\* A body validation declared before a middleware failed, onSchemaErr returned
\* without answering, and onErr has been handed the body's ZodError.
C13_Witness ==
    \E id \in ReqIds :
        LET r == reqs[id] IN
        /\ SchemaErrReturnedUnsent(r)
        /\ Len(decl) >= 2 /\ decl[1] = "body" /\ decl[2] \in MwFns
        /\ r.pc = "onErr"
        /\ ~r.headersSent
        /\ r.calls[2] = <<"onErr", ZodErrorOf("body")>>

\* C14 as stated: when a validator throws something that is not a ZodError,
\* onSchemaErr is not invoked and the failure does not go to onErr.
C14_NotThroughOnErr ==
    \A id \in ReqIds :
        LET r == reqs[id] IN
        r.brokeAt # 0 => (~Invoked(r, "onSchemaErr") /\ ~Invoked(r, "onErr"))

\* C14 amended: when a validator throws something that is not a ZodError,
\* onSchemaErr is not invoked, no later stage and no terminal handler runs,
\* and onErr is the one callback invoked, with the internal error, which is
\* not the ZodError of any channel.
C14_InternalErrorToOnErr ==
    \A id \in ReqIds :
        LET r == reqs[id] IN
        r.brokeAt # 0 =>
            /\ ~Invoked(r, "onSchemaErr")
            /\ r.failedAt = 0
            /\ Len(r.trace) = r.brokeAt
            /\ r.trace[r.brokeAt] \in DataRef
            /\ r.hSeen = <<>>
            /\ r.calls = << <<"onErr", InternalError>> >>
            /\ \A c \in DataRef : InternalError # ZodErrorOf(c)

\* The query validator threw a non-ZodError for a request whose pipeline has a
\* middleware after it; the request ended with onErr alone, handed the
\* internal error.
C14_Witness ==
    \E id \in ReqIds :
        LET r == reqs[id] IN
        /\ Done(r)
        /\ r.brokeAt = 1
        /\ Len(decl) >= 2 /\ decl[1] = "query" /\ decl[2] \in MwFns
        /\ r.client["query"].kind = "odd"
        /\ r.trace = <<"query">>
        /\ r.calls = << <<"onErr", InternalError>> >>

\* C15 as stated: an error thrown by any lifecycle callback leaves the request
\* handler uncaught and no further callback is invoked.
C15_NeverCaught ==
    \A id \in ReqIds :
        LET r == reqs[id] IN
        /\ r.cbThrew # "none" =>
              (Done(r) /\ r.result = "rejected" /\ Len(r.calls) = 1)
        /\ r.catchThrew # "none" =>
              (Done(r) /\ r.result = "rejected")

\* C15 amended: an error thrown by a callback called from the catch block
\* (onErr, or onPostResponse given a thrown value) leaves the request handler
\* and no further callback is invoked; an error thrown by a callback called
\* from the try block (onSchemaErr, onComplete, onPostResponse given the
\* handler's output) is caught and handed to exactly one further callback,
\* onPostResponse if the response is initiated and onErr otherwise.  The
\* request handler rejects in the first case only.
C15_ThrowingCallbacks ==
    \A id \in ReqIds :
        LET r == reqs[id] IN
        /\ r.catchThrew # "none" =>
              /\ Done(r) /\ r.result = "rejected"
              /\ r.calls[Len(r.calls)][1] \in {"onErr", "onPostResponse"}
              /\ Len(r.calls) <= 2
        /\ r.cbThrew # "none" =>
              /\ Len(r.calls) = 2
              /\ r.calls[1][1] \in {"onSchemaErr", "onComplete", "onPostResponse"}
              /\ r.calls[2][2] = r.cbThrew
              /\ r.calls[2][1] = IF r.headersSent /\ r.sentBy # "onErr"
                                 THEN "onPostResponse" ELSE "onErr"
              /\ (Done(r) /\ r.catchThrew = "none") => r.result = "resolved"
        /\ r.result = "rejected" <=> r.catchThrew # "none"

\* onComplete threw, the value was caught and handed to onErr, and onErr threw
\* in turn: only then did the request handler reject.
C15_Witness ==
    \E id \in ReqIds :
        LET r == reqs[id] IN
        /\ Done(r)
        /\ r.cbThrew = "e1" /\ r.catchThrew = "e2"
        /\ Names(r) = <<"onComplete", "onErr">>
        /\ r.calls[2][2] = "e1"
        /\ r.result = "rejected"

\* C16: when a middleware throws before the response has been initiated,
\* onErr is invoked with the thrown value, and no stage declared after that
\* middleware and no terminal handler runs.
C16_MiddlewareThrow ==
    \A id \in ReqIds :
        LET r == reqs[id] IN
        (r.useThrew.at # 0 /\ ~r.useThrew.sent) =>
            /\ r.calls = << <<"onErr", r.useThrew.val>> >>
            /\ Len(r.trace) = r.useThrew.at
            /\ r.trace[r.useThrew.at] \in MwFns
            /\ r.hSeen = <<>>

\* The first of two middleware threw e1 without answering; onErr has been
\* called with e1 and the second middleware never started.
C16_Witness ==
    \E id \in ReqIds :
        LET r == reqs[id] IN
        /\ Len(decl) >= 2 /\ decl[1] \in MwFns /\ decl[2] \in MwFns
        /\ r.useThrew = [at |-> 1, val |-> "e1", sent |-> FALSE]
        /\ Done(r)
        /\ r.calls = << <<"onErr", "e1">> >>
        /\ Len(r.trace) = 1

\* C17: when a middleware initiates the response and then throws, the thrown
\* value is delivered to onPostResponse, onErr is not invoked, and the
\* terminal handler is not executed.
C17_MiddlewareThrowAfterSend ==
    \A id \in ReqIds :
        LET r == reqs[id] IN
        (r.useThrew.at # 0 /\ r.useThrew.sent) =>
            /\ r.sentBy = "use" /\ r.sentAt = r.useThrew.at
            /\ r.calls = << <<"onPostResponse", r.useThrew.val>> >>
            /\ ~Invoked(r, "onErr")
            /\ Len(r.trace) = r.useThrew.at
            /\ r.hSeen = <<>>

\* A middleware answered and then threw e2; the request ended with
\* onPostResponse alone, handed e2, and the terminal handler never ran.
C17_Witness ==
    \E id \in ReqIds :
        LET r == reqs[id] IN
        /\ r.useThrew.at # 0 /\ r.useThrew.sent /\ r.useThrew.val = "e2"
        /\ Done(r)
        /\ r.headersSent
        /\ r.calls = << <<"onPostResponse", "e2">> >>
        /\ r.hSeen = <<>>

\* C18: through a request handler made by next(), Express's next is called at
\* most once and without argument, only after every declared stage has run in
\* order with no response initiated, and always then; after a failed
\* validation or a stage that initiated the response it is never called.
C18_NextOnce ==
    \A id \in ReqIds :
        LET r == reqs[id] IN
        r.via = "next" =>
            /\ Len(r.nextCalls) <= 1
            /\ \A k \in 1..Len(r.nextCalls) : r.nextCalls[k] = "noarg"
            /\ r.hSeen = <<>>
            /\ r.nextCalls # <<>> =>
                  /\ r.trace = decl
                  /\ ~r.headersSent
                  /\ r.calls = <<>>
                  /\ Done(r) /\ r.result = "resolved"
            /\ (Done(r) /\ r.trace = decl /\ ~r.headersSent /\ r.calls = <<>>)
                  => r.nextCalls = <<"noarg">>
            /\ (r.failedAt # 0 \/ r.brokeAt # 0 \/ r.headersSent \/ r.calls # <<>>)
                  => r.nextCalls = <<>>

\* A validation, a middleware and a second validation ran in that order with
\* nothing answered, and next has been called once.
C18_Witness ==
    \E id \in ReqIds :
        LET r == reqs[id] IN
        /\ r.via = "next"
        /\ Len(decl) = 3
        /\ decl[1] \in DataRef /\ decl[2] \in MwFns /\ decl[3] \in DataRef
        /\ r.trace = decl
        /\ r.nextCalls = <<"noarg">>
        /\ Done(r)

\* C19: with two requests in flight through the same request handler, the
\* context each middleware and the terminal handler of a request is handed is
\* the merge of what the middleware of that same request returned before,
\* whatever the other request's middleware returned.
C19_RequestIsolation ==
    \A id \in ConcIds :
        LET r == reqs[id] IN
        /\ \A p \in 1..Len(r.seen) :
              /\ p - 1 <= Len(r.rets)
              /\ r.seen[p] = LastWins(RetVals(r, p - 1))
        /\ r.hSeen # <<>> => r.hSeen[1] = LastWins(RetVals(r, Len(r.rets)))
        /\ r.pc \in {"loop", "handler"} => r.context = LastWins(RetVals(r, Len(r.rets)))

\* Both requests are inside the terminal handler at the same time, the second
\* middleware of r2 having started after the first of r1 returned; each was
\* handed its own middleware's values for the key both wrote.
C19_Witness ==
    /\ reqs["r1"].pc = "handler" /\ reqs["r2"].pc = "handler"
    /\ RetVals(reqs["r1"], 2) = <<[k \in {"a"} |-> 1], [k \in {} |-> 0]>>
    /\ RetVals(reqs["r2"], 2) = <<[k \in {"a"} |-> 2], [k \in {"b"} |-> 1]>>
    /\ reqs["r1"].hSeen = <<[k \in {"a"} |-> 1]>>
    /\ reqs["r2"].hSeen = <<[k \in {"a", "b"} |-> IF k = "a" THEN 2 ELSE 1]>>

\* The fluent calls that had been made when the request handler was created.
Frozen == SubSeq(decl, 1, closure.at)

\* C20: once handler() has produced a request handler, the stages it runs are
\* those declared before it was produced, for requests that arrive later and
\* for a request in flight, whatever is declared on the builder afterwards.
C20_StagesFixed ==
    \A id \in ReqIds : IsPrefix(reqs[id].trace, Append(Frozen, "handler"))

\* C21: if the response is marked initiated from outside while a middleware
\* is suspended, then once that middleware settles no later order entry runs,
\* the terminal handler is not invoked, and neither onComplete nor onErr is
\* invoked.
C21_ExternalShortCircuit ==
    \A id \in ReqIds :
        LET r == reqs[id] IN
        r.sentBy = "external" =>
            /\ Len(r.trace) = r.sentAt
            /\ r.trace[r.sentAt] \in MwFns
            /\ r.hSeen = <<>>
            /\ ~Invoked(r, "onComplete")
            /\ ~Invoked(r, "onErr")
            /\ r.pc # "use" =>
                  /\ r.pc \in {"done", "catchPostResponse"}
                  /\ r.i = r.sentAt - 1
            /\ (Done(r) /\ r.useThrew.at = 0) => (r.calls = <<>> /\ r.result = "resolved")

\* The transport answered while the first of three declared entries, a
\* middleware, was suspended; the middleware then returned and the request
\* ended with the two later entries and the handler never started.
C21_Witness ==
    \E id \in ReqIds :
        LET r == reqs[id] IN
        /\ Len(decl) = 3 /\ decl[1] \in MwFns /\ decl[2] \in DataRef /\ decl[3] \in MwFns
        /\ r.sentBy = "external" /\ r.sentAt = 1
        /\ r.useThrew.at = 0
        /\ Done(r)
        /\ r.trace = <<decl[1]>>
        /\ r.calls = <<>>

\* C22: within one request no two stages are active at once: the only stage
\* that can be awaiting its result is the one started last, so a stage starts
\* only after the one before it has settled.
C22_OneStageAtATime ==
    \A id \in ReqIds :
        LET r == reqs[id] IN
        /\ Cardinality(r.active) <= 1
        /\ \A p \in r.active : p = Len(r.trace)
        /\ r.active # {} <=> r.pc \in {"use", "handler", "onSchemaErr"}
        /\ Len(r.rets) <= Len(r.trace)

\* The first middleware has returned and the second, asynchronous, is the one
\* stage awaited.
C22_Witness ==
    \E id \in ReqIds :
        LET r == reqs[id] IN
        /\ r.pc = "use"
        /\ Len(r.trace) = 2 /\ r.trace[1] \in MwFns /\ r.trace[2] \in MwFns
        /\ Len(r.rets) = 1
        /\ r.active = {2}

UserWrote(r) == r.sentBy \in {"use", "handler"}

C24_DelegationAccepted ==
    \A id \in ReqIds :
        LET r == reqs[id] IN
        (r.failedAt # 0 /\ r.nextCalls = <<"err">> /\ r.sentBy # "next") =>
            (~Invoked(r, "onErr") /\ Len(r.calls) = 1)

\* The status category of the test suite's mapStatus.
Category(statusCode) ==
    CASE statusCode >= 400 /\ statusCode < 500 -> "fail"
      [] statusCode >= 500 /\ statusCode < 600 -> "error"
      [] OTHER -> "success"

\* The handler returned v without answering, and onComplete has settled.
Completed(r, v) ==
    /\ r.hOut = [kind |-> "return", val |-> v, sent |-> FALSE]
    /\ r.pc # "onComplete"

C26_AgreesWithMapStatus ==
    (app.fn = "defaultFormatter" /\ app.done) =>
        app.out = [status |-> Category(app.arg.status),
                   data |-> app.arg.body, meta |-> app.arg.meta]

\* C27: with the default onComplete, a returned function, symbol or bigint is
\* not written to the response by onComplete; onComplete throws an internal
\* error, onErr is called with it and writes the response, in which nothing
\* comes from the returned value.
C27_DisallowedReturn ==
    \A id \in ReqIds :
        LET r == reqs[id] IN
        \A v \in {"fn", "sym", "big"} :
            Completed(r, v) =>
                /\ r.calls = << <<"onComplete", v>>, <<"onErr", "InternalServerError">> >>
                /\ \A k \in 1..Len(r.resp) :
                      /\ r.resp[k].by = "onErr"
                      /\ r.resp[k].status = 500
                      /\ r.resp[k].payload = [status |-> "error",
                                              data |-> "'Internal Server Error'",
                                              meta |-> "{}"]
                /\ Done(r) => (Len(r.resp) = 1 /\ r.result = "resolved")

\* The handler returned a function; the request ended with a 500 written by
\* onErr.
C27_Witness ==
    \E id \in ReqIds :
        LET r == reqs[id] IN
        /\ Done(r)
        /\ Completed(r, "fn")
        /\ Names(r) = <<"onComplete", "onErr">>
        /\ Len(r.resp) = 1 /\ r.resp[1].by = "onErr" /\ r.resp[1].status = 500

\* The Protocol shape as documented: a plain object with a body of any
\* serializable kind, a numeric status, optionally headers mapping strings to
\* strings and optionally a meta mapping, and nothing else.
HasProtocolShape(x) ==
    /\ x.type = "object" /\ ~x.end
    /\ x.keys \subseteq {"body", "status", "headers", "meta"}
    /\ {"body", "status"} \subseteq x.keys
    /\ x.bodyT \in {"string", "record", "number", "array"}
    /\ x.statusT = "number"
    /\ "headers" \in x.keys => x.headersT = "strings"
    /\ "meta" \in x.keys => x.metaT = "record"

\* C28: a returned value of the Protocol shape that is not an Http.End is
\* answered with its own status and body and never wrapped whole as the data
\* of a 200; a returned value of an accepted type without that shape is
\* wrapped at 200.
C28_ProtocolRecognised ==
    \A id \in ReqIds :
        LET r == reqs[id] IN
        \A v \in DefOutputs :
            (Completed(r, v) /\ Done(r)) =>
                /\ HasProtocolShape(Shape(v)) =>
                      /\ r.resp[1].by = "onComplete"
                      /\ r.resp[1].status = Shape(v).status
                      /\ r.resp[1].payload.data = Shape(v).body
                /\ (/\ ~HasProtocolShape(Shape(v))
                    /\ ~Shape(v).end
                    /\ Shape(v).type \notin {"function", "symbol", "bigint"}) =>
                      /\ r.resp[1].status = 200
                      /\ r.resp[1].payload.data = IF v = "undefined" THEN "null" ELSE v

\* The channels of a Pipe request whose schema throws a ZodError / anything.
PipeZod(a) == {c \in DataRef : a.outcome[c] = "zod"}
PipeFailing(a) == {c \in DataRef : a.outcome[c] # "ok"}

\* C29: the middleware made by Pipe.validate() calls next() once, without
\* argument, and no error callback when body, query and params all parse;
\* when parsing throws a ZodError it never calls next() without argument and
\* does exactly one of: call the onSchemaErr given to validate(), else the one
\* given to the constructor, else next(err) with the ZodError.
C29_PipeValidate ==
    (app.fn = "Pipe.validate" /\ app.done) =>
        LET a == app.arg
            o == app.out
        IN /\ PipeFailing(a) = {} =>
                 (o.nexts = <<"noarg">> /\ o.cbs = <<>> /\ o.threw = "none")
           /\ (PipeFailing(a) # {} /\ o.threw = "none") =>
                 /\ \A k \in 1..Len(o.nexts) : o.nexts[k] # "noarg"
                 /\ Len(o.nexts) + Len(o.cbs) = 1
                 /\ a.local => (Len(o.cbs) = 1 /\ o.cbs[1].by = "validate")
                 /\ (~a.local /\ a.ctor) => (Len(o.cbs) = 1 /\ o.cbs[1].by = "constructor")
                 /\ (~a.local /\ ~a.ctor) =>
                       (Len(o.nexts) = 1 /\ \E c \in PipeZod(a) : o.nexts[1] = ZodErrorOf(c))
                 /\ \A k \in 1..Len(o.cbs) : \E c \in PipeZod(a) : o.cbs[k].err = ZodErrorOf(c)
           /\ o.threw = "none" <=>
                 (PipeFailing(a) = {} \/ a.outcome[o.parsed[Len(o.parsed)]] = "zod")

\* The query was rejected with a ZodError in a Pipe that has a callback from
\* its constructor and one from validate(): the one from validate() was
\* called, once, and next was not.
C29_Witness ==
    /\ app.fn = "Pipe.validate" /\ app.done
    /\ app.arg.outcome = [c \in DataRef |-> IF c = "query" THEN "zod" ELSE "ok"]
    /\ app.arg.local /\ app.arg.ctor
    /\ app.out.cbs = <<[by |-> "validate", err |-> ZodErrorOf("query")]>>
    /\ app.out.nexts = <<>>

\* The positions of order that hold the tag of channel c.
PositionsOf(c) == {j \in 1..Len(order) : order[j] = RefEntry(c)}

\* C30: after any sequence of body/query/params/use calls, order is as long
\* as the number of channels a schema is configured for plus the number of
\* middleware registered, and no channel's tag occurs in it twice.
C30_OrderInvariant ==
    /\ Len(order) = Cardinality(DeclaredRefs) + Len(useHandlers)
    /\ \A c \in DataRef : Cardinality(PositionsOf(c)) <= 1

\* The callbacks invoked after the response was initiated, by name.
CallsAfterSend(r) ==
    [k \in 1..(Len(r.calls) - r.atSend.calls) |-> r.calls[r.atSend.calls + k][1]]

\* C31 as stated: once the response is initiated the context stays what it
\* was at that moment, no stage is started, and the only callback invoked is
\* one onPostResponse.
C31_NothingAfterInitiation ==
    \A id \in ReqIds :
        LET r == reqs[id] IN
        r.headersSent =>
            /\ r.context = r.atSend.context
            /\ Len(r.trace) = r.atSend.trace
            /\ CallsAfterSend(r) \in {<<>>, <<"onPostResponse">>}

\* C31 amended: once the response is initiated no stage is started and the
\* only callback invoked is onPostResponse, at most twice, the second time
\* only with what the first one threw; the context changes at most once more,
\* when the stage that initiated the response is a middleware that returns:
\* it becomes the context that middleware was handed merged with what it
\* returned.
C31_FrameAfterInitiation ==
    \A id \in ReqIds :
        LET r == reqs[id] IN
        r.headersSent =>
            /\ Len(r.trace) = r.atSend.trace
            /\ CallsAfterSend(r) \in
                  {<<>>, <<"onPostResponse">>, <<"onPostResponse", "onPostResponse">>}
            /\ Len(CallsAfterSend(r)) = 2 =>
                  (r.cbThrew # "none" /\ r.calls[Len(r.calls)][2] = r.cbThrew)
            /\ \/ r.context = r.atSend.context
               \/ /\ r.sentBy \in {"use", "external"}
                  /\ r.useThrew.at = 0
                  /\ r.rets # <<>>
                  /\ r.context = Merge(r.seen[Len(r.seen)], r.rets[Len(r.rets)].ret)

\* A middleware answered and returned a partial context: the context it left
\* behind is no longer the one the response was initiated with.
C31_Witness ==
    \E id \in ReqIds :
        LET r == reqs[id] IN
        /\ Done(r) /\ r.sentBy = "use" /\ r.rets # <<>>
        /\ r.context # r.atSend.context
        /\ r.calls = <<>>

\* C32: when the terminal handler returns undefined with the response
\* initiated, the request ends there with no lifecycle callback invoked at
\* all; what onPostResponse is invoked with is a defined return value of the
\* handler or a thrown value.
C32_UndefinedAfterSend ==
    \A id \in ReqIds :
        LET r == reqs[id] IN
        /\ r.hOut = [kind |-> "return", val |-> "undefined", sent |-> TRUE] =>
              (r.calls = <<>> /\ Done(r) /\ r.result = "resolved")
        /\ \A k \in 1..Len(r.calls) :
              r.calls[k][1] = "onPostResponse" =>
                  \/ r.hOut.kind = "return" /\ r.hOut.val # "undefined"
                                            /\ r.calls[k][2] = r.hOut.val
                  \/ r.calls[k][2] \in Thrown \cup {InternalError}

\* The terminal handler answered and returned undefined after a validation
\* and a middleware had run.
C32_Witness ==
    \E id \in ReqIds :
        LET r == reqs[id] IN
        /\ r.hOut = [kind |-> "return", val |-> "undefined", sent |-> TRUE]
        /\ r.sentBy = "handler"
        /\ Len(r.trace) = 3
        /\ Done(r)

\* A step in which a stage of request id is started.
StartsStage(id) == reqs'[id].trace # reqs[id].trace

\* C33: per request the loop position never decreases and stages are started
\* one at a time, the stage at position i + 1 when i entries have completed;
\* a stage is started only while no lifecycle callback has been invoked, the
\* terminal handler has not been invoked and the response is not initiated;
\* the terminal handler is started only when every order entry has completed
\* and none of them threw.
C33_ForwardOnly ==
    [][\A id \in ReqIds :
          LET r == reqs[id]
              n == reqs'[id] IN
          /\ n.i >= r.i
          /\ StartsStage(id) =>
                /\ n.trace = Append(r.trace, n.trace[Len(n.trace)])
                /\ Len(n.trace) = r.i + 1
                /\ r.calls = <<>>
                /\ r.hSeen = <<>>
                /\ ~r.headersSent
                /\ n.trace[Len(n.trace)] = "handler" =>
                      /\ r.i = Len(order)
                      /\ r.failedAt = 0 /\ r.brokeAt = 0 /\ r.useThrew.at = 0]_vars

\* The terminal handler ran after three order entries and its value went to
\* onComplete.
C33_Witness ==
    \E id \in ReqIds :
        LET r == reqs[id] IN
        /\ Len(r.trace) = 4
        /\ r.trace[4] = "handler"
        /\ r.i = 3
        /\ Names(r) = <<"onComplete">>
        /\ Done(r)

\* C34: whatever keys a middleware assigns or deletes on the context it was
\* handed, the context handed to every later middleware and to the terminal
\* handler is the merge of what the middleware before it returned, nothing
\* else.
C34_ReadOnlyView ==
    \A id \in ReqIds :
        LET r == reqs[id] IN
        /\ \A k \in 1..Len(r.seen) : r.seen[k] = LastWins(RetVals(r, k - 1))
        /\ r.hSeen # <<>> => r.hSeen[1] = LastWins(RetVals(r, Len(r.rets)))

\* The first middleware wrote to the context it was handed and returned {a: 1};
\* the second middleware was then handed {a: 1}.
C34_Witness ==
    \E id \in ReqIds :
        LET r == reqs[id] IN
        /\ r.mutated
        /\ Len(r.rets) = 1
        /\ Len(r.seen) = 2
        /\ r.seen[2] = [k \in {"a"} |-> 1]
        /\ r.context = r.seen[2]

\* The positions of order that hold a numeric tag.
UsePositions == {j \in 1..Len(order) : order[j].kind = "use"}

\* C35: after any sequence of body/query/params/use calls every numeric tag
\* of order indexes useHandlers, every index of useHandlers is the tag of
\* exactly one entry, the tags increase along order, and the middleware a tag
\* indexes is the one given to the use() call that pushed it.
C35_TagsIndexMiddleware ==
    /\ \A j \in UsePositions : order[j].idx \in 0..(Len(useHandlers) - 1)
    /\ \A n \in 0..(Len(useHandlers) - 1) :
          Cardinality({j \in UsePositions : order[j].idx = n}) = 1
    /\ \A j, k \in UsePositions : j < k => order[j].idx < order[k].idx
    /\ Len(decl) = Len(order)
    /\ \A j \in UsePositions : useHandlers[order[j].idx + 1] = decl[j]

\* use(g).body(s).use(f): the tags 0 and 1 sit at positions 1 and 3.
C35_Witness ==
    /\ decl = <<"g", "body", "f">>
    /\ order = <<UseEntry(0), RefEntry("body"), UseEntry(1)>>
    /\ useHandlers = <<"g", "f">>

\* The response had been initiated when the second callback was invoked.
SentBeforeSecond(r) == r.headersSent /\ r.atSend.calls <= 1

\* C36: a request has at most two lifecycle callback invocations; a second
\* one is made from the catch block: onPostResponse if the response had been
\* initiated by then and onErr if not, handed the value the first callback
\* threw or, when onSchemaErr returned without answering, the validation
\* error parse() threw again.
C36_SecondCallback ==
    \A id \in ReqIds :
        LET r == reqs[id] IN
        /\ Len(r.calls) <= 2
        /\ Len(r.calls) = 2 =>
              /\ r.calls[2][1] = (IF SentBeforeSecond(r) THEN "onPostResponse" ELSE "onErr")
              /\ r.pc \in {"onErr", "catchPostResponse", "done"}
              /\ IF r.cbThrew # "none"
                 THEN r.calls[2][2] = r.cbThrew
                 ELSE /\ r.calls[1] = <<"onSchemaErr", r.err>>
                      /\ r.calls[2] = <<"onErr", r.err>>
                      /\ r.failedAt > 0

\* onComplete answered and then threw: onPostResponse was handed what it threw.
C36_Witness ==
    \E id \in ReqIds :
        LET r == reqs[id] IN
        /\ Done(r)
        /\ Names(r) = <<"onComplete", "onPostResponse">>
        /\ r.sentBy = "onComplete"
        /\ r.calls[2][2] = r.cbThrew
        /\ r.cbThrew \in Thrown

\* Some validator, middleware, terminal handler or try-block callback threw.
ThrewInTry(r) ==
    \/ r.failedAt > 0
    \/ r.brokeAt > 0
    \/ r.useThrew.at > 0
    \/ r.hOut.kind = "throw"
    \/ r.cbThrew # "none"

\* C37: the promise of the request handler made by handler() rejects exactly
\* when the onErr or onPostResponse called from the catch block throws; a
\* request in which a validator, a middleware, the terminal handler,
\* onSchemaErr or onComplete threw and the catch-block callback did not
\* resolves.
C37_RejectsOnlyFromCatch ==
    \A id \in ReqIds :
        LET r == reqs[id] IN
        /\ r.result = "rejected" <=> r.catchThrew # "none"
        /\ r.result = "rejected" =>
              /\ Done(r)
              /\ r.calls # <<>>
              /\ r.calls[Len(r.calls)][1] \in {"onErr", "onPostResponse"}
              /\ ThrewInTry(r)
        /\ (Done(r) /\ ThrewInTry(r) /\ r.catchThrew = "none") => r.result = "resolved"
        /\ r.result # "pending" <=> Done(r)

\* A middleware answered and threw; onPostResponse, called from the catch
\* block, threw in turn and the promise rejected.
C37_Witness ==
    \E id \in ReqIds :
        LET r == reqs[id] IN
        /\ r.useThrew.at = 1 /\ r.useThrew.sent
        /\ Names(r) = <<"onPostResponse">>
        /\ r.catchThrew # "none"
        /\ r.result = "rejected"

\* The place of a channel in the order body, query, params.
PipePos(c) == CASE c = "body" -> 1 [] c = "query" -> 2 [] c = "params" -> 3

\* The place of the first channel whose schema throws, 4 if none does.
PipeFirstFailure(a) ==
    IF PipeFailing(a) = {} THEN 4
    ELSE CHOOSE n \in 1..3 :
            /\ \E c \in PipeFailing(a) : PipePos(c) = n
            /\ \A c \in PipeFailing(a) : PipePos(c) >= n

\* C38: whatever the order in which .body, .query and .params were called,
\* Pipe parses body, then query, then params and stops at the first channel
\* whose schema throws: the channels before it hold their parsed value on the
\* request, that channel and those after it their raw value.
C38_PipeFixedOrder ==
    (app.fn = "Pipe.validate" /\ app.done) =>
        LET a == app.arg
            o == app.out
            f == PipeFirstFailure(a)
        IN /\ Len(o.parsed) = (IF f = 4 THEN 3 ELSE f)
           /\ \A j \in 1..Len(o.parsed) : PipePos(o.parsed[j]) = j
           /\ \A c \in DataRef : o.req[c] = (IF PipePos(c) < f THEN "parsed" ELSE "raw")

\* Declared params, query, body; the query is rejected: body holds its parsed
\* value, query and params their raw one.
C38_Witness ==
    /\ app.fn = "Pipe.validate" /\ app.done
    /\ app.arg.declared = <<"params", "query", "body">>
    /\ app.arg.outcome = [c \in DataRef |-> IF c = "query" THEN "zod" ELSE "ok"]
    /\ app.out.parsed = <<"body", "query">>
    /\ app.out.req = [c \in DataRef |-> IF c = "body" THEN "parsed" ELSE "raw"]

\* The request used no more than one step per order entry, one terminal
\* handler step and two callback invocations, each stage at its own place.
WithinSteps(r) ==
    /\ Len(r.trace) <= Len(order) + 1
    /\ IsPrefix(r.trace, Append(decl, "handler"))
    /\ r.i <= Len(order)
    /\ Len(r.calls) <= 2

\* C39: when everything the closure calls settles, a request that has arrived
\* reaches the end of the closure, and on the way it starts each order entry
\* at most once, the terminal handler at most once and at most two lifecycle
\* callbacks.
C39_Terminates ==
    /\ [](\A id \in ReqIds : WithinSteps(reqs[id]))
    /\ \A id \in ReqIds : (reqs[id].pc # "idle") ~> Done(reqs[id])

\* The longest run: every order entry, the terminal handler, onComplete, which
\* threw, and onErr.
C39_Witness ==
    \E id \in ReqIds :
        LET r == reqs[id] IN
        /\ Done(r)
        /\ Len(order) = MaxLive
        /\ Len(r.trace) = Len(order) + 1
        /\ Names(r) = <<"onComplete", "onErr">>

====
